---- MODULE Spec2Model ----
(***************************************************************************)
(* Nodular: the node tree (nodular/node.py) over a SQLAlchemy session.     *)
(*                                                                         *)
(* Python unicode strings are TLA+ strings; None is NULL for a reference   *)
(* to a node and None for a string argument.  A store is the set of rows   *)
(* of the node and node_alias tables: db is the committed store and sess   *)
(* is the store as the session sees it (its objects and their flushed      *)
(* rows).  Foreign keys follow the relationships (parent_id is the id of   *)
(* parent), as they do once the session has flushed.                       *)
(***************************************************************************)
EXTENDS Integers, Sequences, FiniteSets, TLC

\* ---------------------------------------------------------------- bounds
MaxNew == 1
MaxSteps == 2

\* ---------------------------------------------------------------- values
NULL == 0
None == <<>>

\* ---------------------------------------------------------------- strings
Ten(c) == c \o c \o c \o c \o c \o c \o c \o c \o c \o c
Fifty(c) == Ten(c) \o Ten(c) \o Ten(c) \o Ten(c) \o Ten(c)
\* u'1' * 250 of test_long_path
Long(c) == Fifty(c) \o Fifty(c) \o Fifty(c) \o Fifty(c) \o Fifty(c)

CharAt(s, i) == SubSeq(s, i, i)
startswith(s, c) == Len(s) >= Len(c) /\ SubSeq(s, 1, Len(c)) = c
endswith(s, c) == Len(s) >= Len(c) /\ SubSeq(s, Len(s) - Len(c) + 1, Len(s)) = c
contains(s, c) == \E i \in 1..Len(s) : CharAt(s, i) = c

\* unicode.strip(): drops the leading and the trailing whitespace
RECURSIVE lstrip(_), rstrip(_)
lstrip(s) == IF startswith(s, " ") THEN lstrip(Tail(s)) ELSE s
rstrip(s) == IF endswith(s, " ") THEN rstrip(SubSeq(s, 1, Len(s) - 1)) ELSE s
strip(s) == rstrip(lstrip(s))

\* code point order of the characters the model uses
CodePoints == " /0123456789abcdefghijklmnopqrstuvwxyz"
ord(c) == CHOOSE i \in 1..Len(CodePoints) : CharAt(CodePoints, i) = c

RECURSIVE StrLess(_, _)
StrLess(a, b) ==
    IF a = b THEN FALSE
    ELSE IF a = "" THEN TRUE
    ELSE IF b = "" THEN FALSE
    ELSE IF Head(a) = Head(b) THEN StrLess(Tail(a), Tail(b))
    ELSE ord(Head(a)) < ord(Head(b))

RECURSIVE pathjoin(_, _)
pathjoin(a, p) ==
    IF p = <<>> THEN a
    ELSE LET b == Head(p)
             path == IF startswith(b, "/") THEN b
                     ELSE IF a = "" \/ endswith(a, "/") THEN a \o b
                     ELSE a \o "/" \o b
         IN  pathjoin(path, Tail(p))

\* ---------------------------------------------------------------- stores
VARIABLES db, sess, call, reply, names, room, steps, peer
vars == <<db, sess, call, reply, names, room, steps, peer>>

\* A store: node maps the id of every node row to its columns, alias is the
\* set of node_alias rows, nextid the next primary key.  vacated is a history
\* variable: the (parent, name) slots a node left by a completed rename or by
\* its own deletion.
\* revision is the table of the revisions of the revisioned nodes, in the
\* order of their primary keys.
EmptyStore ==
    [alias |-> {}, nextid |-> 1, node |-> <<>>, revision |-> <<>>, vacated |-> {}]

Live(S) == DOMAIN S.node
Parented(S) == {n \in Live(S) : S.node[n].parent # NULL}
Roots(S) == {n \in Live(S) : S.node[n].parent = NULL}

\* Node._nodes: the children of a node, ordered by Node.name (then by id)
Before(node, x, y) ==
    \/ StrLess(node[x].name, node[y].name)
    \/ node[x].name = node[y].name /\ x < y

RECURSIVE Ordered(_, _)
Ordered(node, set) ==
    IF set = {} THEN <<>>
    ELSE LET m == CHOOSE x \in set : \A y \in set \ {x} : Before(node, x, y)
         IN  <<m>> \o Ordered(node, set \ {m})

_nodes(node, self) ==
    Ordered(node, {c \in DOMAIN node : node[c].parent = self})

\* The nodes the cascades of _update_path and _update_root visit from self.
RECURSIVE Below(_, _, _)
Below(node, frontier, seen) ==
    LET next == {c \in DOMAIN node : node[c].parent \in frontier} \ seen
    IN  IF next = {} THEN seen ELSE Below(node, next, seen \cup next)

Descendants(node, self) == Below(node, {self}, {})
Subtree(node, self) == {self} \cup Descendants(node, self)

\* The cascades recurse through _nodes: they return when no node below self
\* is its own descendant.
Acyclic(node, self) ==
    \A m \in Subtree(node, self) : m \notin Descendants(node, m)

\* ---------------------------------------------------------------- Node
NoError == ""
InvalidName == "ValueError(value)"
PathTooLong == "ValueError(Path is too long)"
IntegrityError == "IntegrityError"

\* NodeAlias.query.get((parent_id, name)): the rows with that primary key
AliasRows(alias, parent_id, name) ==
    {a \in alias : parent_id # NULL /\ a.parent = parent_id /\ a.name = name}

\* RenameAlias, were it to leave an alias that is there as it is
RenameAlias_Kept(S, self) ==
    LET me == S.node[self]
    IN  IF AliasRows(S.alias, me.parent, me.name) = {}
        THEN S.alias \cup {[name |-> me.name, node |-> self, parent |-> me.parent]}
        ELSE S.alias

\* lines 220-225: the alias of the slot the node leaves now references it
RenameAlias(S, self) ==
    LET me == S.node[self]
        found == AliasRows(S.alias, me.parent, me.name)
    IN  IF found = {}
        THEN S.alias \cup {[name |-> me.name, node |-> self, parent |-> me.parent]}
        ELSE LET alias == CHOOSE a \in found : TRUE
             IN  (S.alias \ {alias}) \cup {[alias EXCEPT !.node = self]}

\* _validate_name, were it to keep the spaces around a name
_validate_name_Raw(S, self, value) ==
    IF value = None THEN [alias |-> S.alias, exc |-> InvalidName, value |-> ""]
    ELSE IF contains(value[1], "/")
    THEN [alias |-> S.alias, exc |-> InvalidName, value |-> ""]
    ELSE LET v == value[1]
         IN  IF v = "" THEN [alias |-> S.alias, exc |-> InvalidName, value |-> ""]
             ELSE [alias |-> IF v # S.node[self].name /\ S.node[self].name # ""
                             THEN RenameAlias(S, self) ELSE S.alias,
                   exc |-> NoError, value |-> v]

\* @validates('name'): the value to store, or the ValueError; the alias table
\* as the validator leaves it.  A name that is "" is the None of a node whose
\* name was never set.
_validate_name(S, self, value) ==
    IF value = None THEN [alias |-> S.alias, exc |-> InvalidName, value |-> ""]
    ELSE IF contains(value[1], "/")
    THEN [alias |-> S.alias, exc |-> InvalidName, value |-> ""]
    ELSE LET v == strip(value[1])
         IN  IF v = "" THEN [alias |-> S.alias, exc |-> InvalidName, value |-> ""]
             ELSE [alias |-> IF v # S.node[self].name /\ S.node[self].name # ""
                             THEN RenameAlias(S, self) ELSE S.alias,
                   exc |-> NoError, value |-> v]

\* _marker: the default of newparent, "use self.parent"
_marker == -1

\* Node._update_path(newparent, newname); newname is "" when the argument is
\* left out or None.  The result is the node table as the cascade leaves it,
\* also when it raises part of the way.
RECURSIVE _update_path(_, _, _, _), UpdateChildPaths(_, _)
\* _update_path, were it without the check of the length
_update_path_Unchecked(node, self, newparent, newname) ==
    LET useparent == IF newparent # _marker THEN newparent ELSE node[self].parent
    IN  IF useparent = NULL
        THEN UpdateChildPaths([node EXCEPT ![self].path = "/"], _nodes(node, self))
        ELSE LET name == IF newname # "" THEN newname ELSE node[self].name
             IN  UpdateChildPaths(
                     [node EXCEPT ![self].path =
                                      pathjoin(node[useparent].path, <<name>>)],
                     _nodes(node, self))

_update_path(node, self, newparent, newname) ==
    LET useparent == IF newparent # _marker THEN newparent ELSE node[self].parent
    IN  IF useparent = NULL
        THEN UpdateChildPaths([node EXCEPT ![self].path = "/"], _nodes(node, self))
        ELSE LET name == IF newname # "" THEN newname ELSE node[self].name
                 path == pathjoin(node[useparent].path, <<name>>)
             IN  IF Len(path) > 1000
                 THEN [exc |-> PathTooLong, node |-> node]
                 ELSE UpdateChildPaths([node EXCEPT ![self].path = path],
                                       _nodes(node, self))

\* for child in self._nodes: child._update_path()
UpdateChildPaths(node, children) ==
    IF children = <<>> THEN [exc |-> NoError, node |-> node]
    ELSE LET r == _update_path(node, Head(children), _marker, "")
         IN  IF r.exc # NoError THEN r ELSE UpdateChildPaths(r.node, Tail(children))

\* _update_root, were it to give the root to every node of the tree that self
\* is in
RECURSIVE Rerooted(_, _, _, _)
Rerooted(node, old, root, ids) ==
    IF ids = {} THEN node
    ELSE LET n == CHOOSE m \in ids : TRUE
         IN  Rerooted(IF node[n].root = old THEN [node EXCEPT ![n].root = root]
                      ELSE node,
                      old, root, ids \ {n})
_update_root_Tree(node, self, root) ==
    Rerooted([node EXCEPT ![self].root = root], node[self].root, root, DOMAIN node)

\* Node._update_root(root)
RECURSIVE _update_root(_, _, _), UpdateChildRoots(_, _, _)
_update_root(node, self, root) ==
    UpdateChildRoots([node EXCEPT ![self].root = root], _nodes(node, self), root)

\* for child in self.nodes.values(): child._update_root(root)
UpdateChildRoots(node, children, root) ==
    IF children = <<>> THEN node
    ELSE UpdateChildRoots(_update_root(node, Head(children), root),
                          Tail(children), root)

\* The 'set' listener of Node.parent; oldvalue is the current parent.
_node_parent_listener(node, target, value) ==
    IF value # node[target].parent
    THEN IF value # NULL
         THEN LET rooted == IF node[target].root # node[value].root
                            THEN _update_root(node, target, node[value].root)
                            ELSE node
              IN  _update_path(rooted, target, value, "")
         ELSE _update_path(_update_root(node, target, target), target, target, "")
    ELSE [exc |-> NoError, node |-> node]

\* The 'set' listener of Node.name; it runs after the validator, on the
\* validated value.
_node_name_listener(node, target, value) ==
    IF value # node[target].name
    THEN _update_path(node, target, _marker, value)
    ELSE [exc |-> NoError, node |-> node]

\* node.name = value: the validator (v), the listener (l), then the attribute
\* is set.  An exception leaves what was done before it.
NameSet(S, self, v, l) ==
    IF v.exc # NoError THEN [exc |-> v.exc, store |-> S]
    ELSE IF l.exc # NoError
    THEN [exc |-> l.exc, store |-> [S EXCEPT !.alias = v.alias, !.node = l.node]]
    ELSE [exc |-> NoError,
          store |-> [S EXCEPT !.alias = v.alias,
                              !.node = [l.node EXCEPT ![self].name = v.value]]]

SetName(S, self, value) ==
    LET v == _validate_name(S, self, value)
    IN  NameSet(S, self, v, _node_name_listener(S.node, self, v.value))

\* node.parent = value: the listener (l), then the attribute is set
ParentSet(S, self, value, l) ==
    IF l.exc # NoError THEN [exc |-> l.exc, store |-> [S EXCEPT !.node = l.node]]
    ELSE [exc |-> NoError,
          store |-> [S EXCEPT !.node = [l.node EXCEPT ![self].parent = value]]]

SetParent(S, self, value) ==
    ParentSet(S, self, value, _node_parent_listener(S.node, self, value))

\* Node.__init__, lines 201-202: if self._root is None: self._root = self.parent or self
DefaultRoot(me, self) ==
    IF me.root # NULL THEN me.root ELSE IF me.parent # NULL THEN me.parent ELSE self

\* Node(name=value, parent=parent); parent is NULL when the argument is left
\* out.  The constructor sets name before parent.  The new object is in no
\* session and no collection until its parent is set, so an exception leaves
\* the store as it was.
Constructed(S, self, placed) ==
    IF placed.exc # NoError THEN [exc |-> placed.exc, store |-> S]
    ELSE [exc |-> NoError,
          store |-> [placed.store EXCEPT
                        !.node[self].root = DefaultRoot(placed.store.node[self], self),
                        !.nextid = self + 1]]

Named(S, self, parent, named) ==
    IF named.exc # NoError \/ parent = NULL THEN Constructed(S, self, named)
    ELSE Constructed(S, self, SetParent(named.store, self, parent))

NewNode(S, value, parent) ==
    Named(S, S.nextid, parent,
          SetName([S EXCEPT !.node = S.node @@ (S.nextid :>
                      [itype |-> "", name |-> "", parent |-> NULL, path |-> "",
                       properties |-> <<>>, root |-> NULL, type |-> "node"])],
                  S.nextid, value))

\* node.name = value, with the history of the slots left: a completed rename
\* of a node that has a parent leaves the slot (parent, old name)
Renamed(S, self, r) ==
    IF r.exc = NoError /\ S.node[self].parent # NULL
                       /\ r.store.node[self].name # S.node[self].name
    THEN [exc |-> r.exc,
          store |-> [r.store EXCEPT !.vacated =
                        @ \cup {<<S.node[self].parent, S.node[self].name>>}]]
    ELSE r

RenameNode(S, self, value) == Renamed(S, self, SetName(S, self, value))

\* ProxyDict.__setitem__, lines 123-127: setattr(value, 'name', key), then
\* setattr(value, 'parent', self.parent())
Assigned(S, self, key, value, named) ==
    IF named.exc # NoError THEN named ELSE SetParent(named.store, value, self)

\* self.nodes[key] = value, lines 117-127; existing is the child of self that
\* has the name key.  self.collection.remove(existing) sets existing.parent
\* to None, which runs the listener of parent, and makes existing an orphan
\* that the next flush deletes; its row stays as it is until then.
__setitem__(S, self, key, value) ==
    LET existing == IF key = None THEN {}
                    ELSE {m \in Live(S) : S.node[m].parent = self
                                             /\ S.node[m].name = key[1]}
    IN  IF existing = {} THEN Assigned(S, self, key, value, RenameNode(S, value, key))
        ELSE LET removed == SetParent(S, CHOOSE m \in existing : TRUE, NULL)
             IN  IF removed.exc # NoError THEN removed
                 ELSE IF value \in existing
                 THEN Assigned(removed.store, self, key, value,
                               RenameNode(removed.store, value, key))
                 ELSE Assigned(S, self, key, value, RenameNode(S, value, key))

\* _node_flush_listener, were it to make a gone-marker only where there is no
\* alias yet
_node_flush_listener_New(S, obj) ==
    LET me == S.node[obj]
    IN  IF me.parent = NULL \/ AliasRows(S.alias, me.parent, me.name) # {}
        THEN S.alias
        ELSE S.alias \cup {[name |-> me.name, node |-> NULL, parent |-> me.parent]}

\* before_flush: the gone-marker of a deleted node that is not a root
_node_flush_listener(S, obj) ==
    LET me == S.node[obj]
        found == AliasRows(S.alias, me.parent, me.name)
    IN  IF me.parent = NULL THEN S.alias
        ELSE IF found = {}
        THEN S.alias \cup {[name |-> me.name, node |-> NULL, parent |-> me.parent]}
        ELSE LET alias == CHOOSE a \in found : TRUE
             IN  (S.alias \ {alias}) \cup {[alias EXCEPT !.node = NULL]}

\* ForeignKey('node.id', ondelete='CASCADE') of parent_id and of root_id: the
\* rows that go with the row of obj
RECURSIVE Cascade(_, _)
Cascade(node, gone) ==
    LET more == {n \in DOMAIN node \ gone :
                    node[n].parent \in gone \/ node[n].root \in gone}
    IN  IF more = {} THEN gone ELSE Cascade(node, gone \cup more)

\* CascadeAliases, were node_id without ondelete='SET NULL'
CascadeAliases_Kept(alias, gone) == {b \in alias : b.parent \notin gone}

\* CascadeAliases, were node_id ondelete='CASCADE' too
CascadeAliases_Node(alias, gone) ==
    {b \in alias : b.parent \notin gone /\ b.node \notin gone}

\* NodeAlias.parent_id is ondelete='CASCADE', NodeAlias.node_id 'SET NULL'
CascadeAliases(alias, gone) ==
    {[a EXCEPT !.node = IF a.node \in gone THEN NULL ELSE a.node] :
        a \in {b \in alias : b.parent \notin gone}}

\* The rows of the node table that stay
RECURSIVE Rows(_, _)
Rows(node, keep) ==
    IF keep = {} THEN <<>>
    ELSE LET n == CHOOSE m \in keep : TRUE
         IN  (n :> node[n]) @@ Rows(node, keep \ {n})

\* db.session.delete(obj) and the flush that carries it out
DeleteNode(S, obj) ==
    LET gone == Cascade(S.node, {obj})
        me == S.node[obj]
    IN  [S EXCEPT !.node = Rows(S.node, DOMAIN S.node \ gone),
                  !.alias = CascadeAliases(_node_flush_listener(S, obj), gone),
                  !.vacated = IF me.parent = NULL THEN @
                              ELSE @ \cup {<<me.parent, me.name>>}]

\* node.properties[key] = value: properties is the JSON dictionary of the
\* node; a value is None or <<v>>
SetProperty(S, self, key, value) ==
    [S EXCEPT !.node[self].properties = (key :> value) @@ @]

\* getprop, were it to look at the node alone
getprop_Own(node, self, key, default) ==
    IF self = NULL THEN default
    ELSE IF key \in DOMAIN node[self].properties THEN node[self].properties[key]
    ELSE default

\* Node.getprop(key, default)
RECURSIVE getprop(_, _, _, _)
getprop(node, self, key, default) ==
    IF self = NULL THEN default
    ELSE IF key \in DOMAIN node[self].properties THEN node[self].properties[key]
    ELSE getprop(node, node[self].parent, key, default)

\* Node.getnode(name, default), lines 281-287; node and alias are what
\* self.nodes.get(name) and self.aliases.get(name) find, {} for None
getnode(S, self, name, default) ==
    LET node == {m \in Live(S) : S.node[m].parent = self /\ S.node[m].name = name}
        alias == AliasRows(S.alias, self, name)
    IN  IF node # {} /\ alias # {} /\ (\A a \in alias : a.node # NULL)
        THEN (CHOOSE a \in alias : TRUE).node
        ELSE default

\* The loop of getprop ends: it comes to a node that has the key or to a node
\* without a parent.  On a cycle of parents without the key it runs on.
RECURSIVE Returns(_, _, _, _)
Returns(node, self, key, seen) ==
    IF self = NULL THEN TRUE
    ELSE IF self \in seen THEN FALSE
    ELSE IF key \in DOMAIN node[self].properties THEN TRUE
    ELSE Returns(node, node[self].parent, key, seen \cup {self})

\* UniqueConstraints, were the node table without __table_args__
UniqueConstraints_NoNode(S) ==
    /\ \A a \in S.alias : a.parent # NULL
    /\ \A a, b \in S.alias : a.parent = b.parent /\ a.name = b.name => a = b

\* UniqueConstraint('parent_id', 'name'), UniqueConstraint('root_id', 'path')
\* and the primary key (parent_id, name) of node_alias
UniqueConstraints(S) ==
    /\ \A x, y \in Live(S) :
          x # y /\ S.node[x].parent # NULL /\ S.node[x].parent = S.node[y].parent
             => S.node[x].name # S.node[y].name
    /\ \A x, y \in Live(S) :
          x # y /\ S.node[x].root = S.node[y].root => S.node[x].path # S.node[y].path
    /\ \A a \in S.alias : a.parent # NULL
    /\ \A a, b \in S.alias : a.parent = b.parent /\ a.name = b.name => a = b

\* -------------------------------------------------------------- publisher
MATCH == 0
REDIRECT == 1
PARTIAL == 2
NOROOT == 3
GONE == 4

BadBasepath == "ValueError(basepath)"
BadUrlpath == "ValueError(urlpath)"

\* s[n:] and s[:-1]
From(s, n) == SubSeq(s, n + 1, Len(s))
ButLast(s) == SubSeq(s, 1, Len(s) - 1)

\* unicode.find(u'/'): the place of the first slash, counted from 1; 0 when
\* there is none
find(s) ==
    IF contains(s, "/")
    THEN CHOOSE i \in 1..Len(s) :
             CharAt(s, i) = "/" /\ \A j \in 1..(i - 1) : CharAt(s, j) # "/"
    ELSE 0

\* unicode.split(u'/') and u'/'.join(parts)
RECURSIVE split(_), join(_)
split(s) ==
    IF find(s) = 0 THEN <<s>>
    ELSE <<SubSeq(s, 1, find(s) - 1)>> \o split(From(s, find(s)))
join(parts) ==
    IF parts = <<>> THEN ""
    ELSE IF Len(parts) = 1 THEN parts[1]
    ELSE parts[1] \o "/" \o join(Tail(parts))

\* unicode.split(u'/', 1)
split1(s) ==
    IF find(s) = 0 THEN <<s>> ELSE <<SubSeq(s, 1, find(s) - 1), From(s, find(s))>>

Range(seq) == {seq[i] : i \in 1..Len(seq)}

\* _make_path_tree: the path without one leading and one trailing slash
StripLeading(path) == IF startswith(path, "/") THEN From(path, 1) ELSE path
StripTrailing(path) == IF endswith(path, "/") THEN ButLast(path) ELSE path

\* _make_path_tree, were it to leave the trailing slash
SearchPath_Trailing(basepath, path) ==
    IF StripLeading(path) = "" THEN basepath
    ELSE pathjoin(basepath, <<StripLeading(path)>>)

SearchPath(basepath, path) ==
    IF StripTrailing(StripLeading(path)) = "" THEN basepath
    ELSE pathjoin(basepath, <<StripTrailing(StripLeading(path))>>)

SearchPaths(searchpath, parts) ==
    IF searchpath = "/" THEN <<"/">>
    ELSE [x \in 1..Len(parts) |-> IF x = 1 THEN "/" ELSE join(SubSeq(parts, 1, x))]

_make_path_tree(basepath, path) ==
    [searchpath |-> SearchPath(basepath, path),
     searchpaths |-> SearchPaths(SearchPath(basepath, path),
                                 split(SearchPath(basepath, path)))]

\* NodePublisher(root, registry, basepath, urlpath): urlpath is None when the
\* argument is left out
NodePublisher(root, basepath, urlpath) ==
    IF ~startswith(basepath, "/")
    THEN [basepath |-> basepath, exc |-> BadBasepath, root_id |-> root, urlpath |-> ""]
    ELSE LET base == IF basepath # "/" /\ endswith(basepath, "/")
                     THEN ButLast(basepath) ELSE basepath
         IN  IF urlpath = None
             THEN [basepath |-> base, exc |-> NoError, root_id |-> root, urlpath |-> base]
             ELSE IF ~startswith(urlpath[1], "/")
             THEN [basepath |-> base, exc |-> BadUrlpath, root_id |-> root, urlpath |-> ""]
             ELSE [basepath |-> base, exc |-> NoError, root_id |-> root,
                   urlpath |-> urlpath[1]]

\* What traverse returns: (status, node, path), or the exception it raises
Result(exc, status, node, path) ==
    [exc |-> exc, node |-> node, path |-> path, status |-> status]

\* RedirectPath, were it to leave the path as it is under basepath
RedirectPath_Base(self, redirectpath) == redirectpath

\* lines 238-245: the path the alias redirects to, from basepath to urlpath
RedirectPath(self, redirectpath) ==
    IF startswith(From(redirectpath, Len(self.basepath)), "/")
    THEN pathjoin(self.urlpath, <<From(From(redirectpath, Len(self.basepath)), 1)>>)
    ELSE pathjoin(self.urlpath, <<From(redirectpath, Len(self.basepath))>>)

\* Partial, were it to take an alias without a node for no alias
Partial_Unmarked(S, self, lastnode, pathfragment, found, redirect) ==
    IF ~redirect \/ found = {} \/ \A a \in found : a.node = NULL
    THEN Result(NoError, PARTIAL, lastnode, <<"/" \o pathfragment>>)
    ELSE LET alias == CHOOSE a \in found : TRUE
         IN  Result(NoError, REDIRECT, lastnode,
                    <<RedirectPath(self,
                         pathjoin(S.node[lastnode].path,
                                  <<S.node[alias.node].name>>
                                      \o Tail(split1(pathfragment))))>>)

\* Partial, were it to look for the alias whatever redirect is
Partial_Always(S, self, lastnode, pathfragment, found, redirect) ==
    IF found = {}
    THEN Result(NoError, PARTIAL, lastnode, <<"/" \o pathfragment>>)
    ELSE LET alias == CHOOSE a \in found : TRUE
         IN  IF alias.node = NULL
             THEN Result(NoError, GONE, lastnode, <<"/" \o pathfragment>>)
             ELSE Result(NoError, REDIRECT, lastnode,
                         <<RedirectPath(self,
                              pathjoin(S.node[lastnode].path,
                                       <<S.node[alias.node].name>>
                                           \o Tail(split1(pathfragment))))>>)

\* lines 225-253: lastnode is not the node asked for; found is the alias of
\* lastnode for the first name of pathfragment
Partial(S, self, lastnode, pathfragment, found, redirect) ==
    IF ~redirect \/ found = {}
    THEN Result(NoError, PARTIAL, lastnode, <<"/" \o pathfragment>>)
    ELSE LET alias == CHOOSE a \in found : TRUE
         IN  IF alias.node = NULL
             THEN Result(NoError, GONE, lastnode, <<"/" \o pathfragment>>)
             ELSE Result(NoError, REDIRECT, lastnode,
                         <<RedirectPath(self,
                              pathjoin(S.node[lastnode].path,
                                       <<S.node[alias.node].name>>
                                           \o Tail(split1(pathfragment))))>>)

\* lines 209-223: lastnode is nodes[-1]
Closest(S, self, nodepath, lastnode, pathfragment, redirect) ==
    IF S.node[lastnode].path = nodepath THEN Result(NoError, MATCH, lastnode, None)
    ELSE IF Len(S.node[lastnode].path) < Len(self.basepath)
    THEN Result(NoError, NOROOT, NULL, None)
    ELSE Partial(S, self, lastnode, pathfragment,
                 AliasRows(S.alias, lastnode, Head(split1(pathfragment))), redirect)

\* Queried, were it to take the first node of the result for the last
Queried_First(S, self, nodepath, nodes, redirect) ==
    IF nodes = {} THEN Result(NoError, NOROOT, NULL, None)
    ELSE LET lastnode == CHOOSE n \in nodes : \A m \in nodes \ {n} :
                             StrLess(S.node[n].path, S.node[m].path)
         IN  Closest(S, self, nodepath, lastnode,
                     StripLeading(From(nodepath, Len(S.node[lastnode].path))),
                     redirect)

\* lines 196-207: nodes is the result of the query, ordered by path
Queried(S, self, nodepath, nodes, redirect) ==
    IF nodes = {} THEN Result(NoError, NOROOT, NULL, None)
    ELSE LET lastnode == CHOOSE n \in nodes : \A m \in nodes \ {n} :
                             StrLess(S.node[m].path, S.node[n].path)
         IN  Closest(S, self, nodepath, lastnode,
                     StripLeading(From(nodepath, Len(S.node[lastnode].path))),
                     redirect)

\* Node.query.filter(Node._root_id == self.root_id, Node.path.in_(searchpaths))
Query(S, self, searchpaths) ==
    {n \in Live(S) : S.node[n].root = self.root_id
                        /\ S.node[n].path \in Range(searchpaths)}

\* lines 190-196: path starts with a slash.  The query flushes the session,
\* which raises IntegrityError on a violated constraint.
Traversed(S, self, path, tree, redirect) ==
    IF ~startswith(path, self.urlpath) THEN Result(NoError, NOROOT, NULL, <<path>>)
    ELSE IF ~UniqueConstraints(S) THEN Result(IntegrityError, NOROOT, NULL, None)
    ELSE Queried(S, self, tree.searchpath, Query(S, self, tree.searchpaths), redirect)

\* NodePublisher.traverse(path, redirect)
Rooted(path) == IF startswith(path, "/") THEN path ELSE "/" \o path
traverse(S, self, path, redirect) ==
    Traversed(S, self, Rooted(path),
              _make_path_tree(self.basepath, From(Rooted(path), Len(self.urlpath))),
              redirect)

\* ------------------------------------------------------------------- views
\* The exceptions of publish: those of exceptions.py and those of the calls
\* into werkzeug (dispatch, abort)
RootNotFound == "RootNotFound"
NodeGone == "NodeGone"
ViewNotFound == "ViewNotFound"
NotFound == "NotFound"
MethodNotAllowed == "MethodNotAllowed"
Forbidden == "Forbidden"

\* The classes of exceptions.py and their bases in werkzeug.exceptions
Bases(exc) ==
    IF exc = RootNotFound THEN {RootNotFound, "NodeNotFound", NotFound}
    ELSE IF exc = ViewNotFound THEN {ViewNotFound, NotFound}
    ELSE IF exc = NodeGone THEN {NodeGone, "Gone"}
    ELSE {exc}

\* def name(self): return returns; the one view function of the tests that
\* returns the method of the request after its text is marked with_method
Function(name, returns, with_method) ==
    [name |-> name, requires |-> <<>>, returns |-> returns, with_method |-> with_method]

\* NodeView.requires_permission(permission, *other)(f): the function f behind
\* the test of the permissions
requires_permission(permission, other, f) ==
    [f EXCEPT !.requires = <<[other |-> other, permission |-> permission]>> \o @]

\* NodeView.route(rule, methods=methods)(f), the endpoint being left out:
\* f is a function or the _NodeRoute of a decorator below
route(rule, methods, f) ==
    [endpoint |-> (IF "f" \in DOMAIN f THEN f.f ELSE f).name,
     f |-> IF "f" \in DOMAIN f THEN f.f ELSE f,
     methods |-> (IF methods = None THEN {"GET"} ELSE methods[1]) \cup {"OPTIONS"},
     rule |-> rule]

\* UrlRule(route.rule, endpoint=route.endpoint, methods=route.methods): a
\* rule of werkzeug answers HEAD where it answers GET
UrlRule(r) ==
    [endpoint |-> r.endpoint,
     methods |-> IF "GET" \in r.methods THEN r.methods \cup {"HEAD"} ELSE r.methods,
     rule |-> r.rule]

\* NodeView.__metaclass__.__new__(cls, name, bases, attrs) for one base:
\* routes are the _NodeRoute values of attrs
Rules(routes) == [i \in 1..Len(routes) |-> UrlRule(routes[i])]
\* Functions, were an inherited function kept over the class's own
Functions_Inherited(routes, inherited) ==
    [e \in {routes[i].endpoint : i \in 1..Len(routes)} \cup DOMAIN inherited |->
        IF e \in DOMAIN inherited
        THEN inherited[e]
        ELSE (CHOOSE r \in Range(routes) : r.endpoint = e).f]
Functions(routes, inherited) ==
    [e \in {routes[i].endpoint : i \in 1..Len(routes)} \cup DOMAIN inherited |->
        IF \E i \in 1..Len(routes) : routes[i].endpoint = e
        THEN (CHOOSE r \in Range(routes) : r.endpoint = e).f
        ELSE inherited[e]]
\* attrs[routeattr] = route.f: the class's own attributes, its functions
Attrs(routes) ==
    [e \in {routes[i].endpoint : i \in 1..Len(routes)} |->
        (CHOOSE r \in Range(routes) : r.endpoint = e).f]
NodeViewClass(name, base, routes) ==
    [attrs |-> Attrs(routes),
     bases |-> <<base>>,
     name |-> name,
     url_map |-> base.url_map \o Rules(routes),
     view_functions |-> Functions(routes, base.view_functions)]

NodeView ==
    [attrs |-> <<>>, bases |-> <<>>, name |-> "NodeView", url_map |-> <<>>,
     view_functions |-> <<>>]

\* The views of test_publish_view.py
MyNodeView ==
    NodeViewClass("MyNodeView", NodeView,
                  <<route("/", None, Function("index", "node-index", FALSE))>>)
ExpandedNodeView ==
    NodeViewClass("ExpandedNodeView", MyNodeView,
        <<route("/", <<{"GET", "POST"}>>, Function("index", "expanded-index", FALSE)),
          route("/edit", <<{"GET"}>>, Function("editget", "edit-GET", FALSE)),
          route("/edit", <<{"POST"}>>, Function("editpost", "edit-POST", FALSE)),
          route("/multimethod", <<{"GET", "POST"}>>,
                route("/multimethod", <<{"PUT"}>>,
                      Function("multimethod", "multimethod-", TRUE)))>>)
RestrictedView ==
    NodeViewClass("RestrictedView", MyNodeView,
        <<route("/view", None,
                requires_permission("view", {}, Function("view", "view", FALSE))),
          route("/admin", None,
                requires_permission("admin", {}, Function("admin", "admin", FALSE)))>>)
\* The view of the docstring of NodeView
DocNodeView ==
    NodeViewClass("DocNodeView", NodeView,
        <<route("/", None, Function("index", "index view", FALSE)),
          route("/edit", <<{"GET", "POST"}>>,
                route("/", <<{"PUT"}>>,
                      requires_permission("edit", {"siteadmin"},
                                          Function("edit", "edit view", FALSE)))),
          route("/delete", <<{"GET", "POST"}>>,
                route("/", <<{"DELETE"}>>,
                      requires_permission("delete", {"siteadmin"},
                                          Function("delete", "delete view", FALSE))))>>)

\* ---------------------------------------------------------------- registry
\* NodeRegistry(): urlmaps holds the rules of every node type in the order
\* in which they were added
NodeRegistry == [urlmaps |-> <<>>, viewlist |-> {}]

\* rule.empty() with endpoint dotted_view_name + '/' + rule.endpoint
Registered(nodetype, view, rule) ==
    [endpoint |-> <<view.name, rule.endpoint>>, methods |-> rule.methods,
     nodetype |-> nodetype, rule |-> rule.rule]

\* NodeRegistry.register_view(nodetype, view)
register_view(registry, nodetype, view) ==
    [urlmaps |-> registry.urlmaps
                    \o [i \in 1..Len(view.url_map) |->
                            Registered(nodetype, view, view.url_map[i])],
     viewlist |-> {v \in registry.viewlist : v.name # view.name} \cup {view}]

\* NodeRegistry.register_node(model, view=view, itype=itype), nodetype being
\* itype or model.__type__
register_node(registry, nodetype, view) == register_view(registry, nodetype, view)

\* registry.urlmaps[nodetype], empty for a type that has no view
OfType(urlmaps, nodetype) ==
    LET Is(r) == r.nodetype = nodetype IN SelectSeq(urlmaps, Is)

\* Node.etype
etype(row) == IF row.itype # "" THEN row.itype ELSE row.type

\* node.permissions(user): none from the mixin of coaster, and 'view' for
\* everyone on a TestType
permissions(row, user) == IF row.type = "test_type" THEN {"view"} ELSE {}

\* --------------------------------------------------------------- publisher
\* What publish returns or raises: the text of a view or a redirect, the
\* view function that was called and whether its body ran, and the rules
\* and the path that were dispatched
Outcome(exc, response, location, called, ran) ==
    [called |-> called, exc |-> exc, location |-> location, ran |-> ran,
     response |-> response]

\* decorated_function of requires_permission, were it to look at the first
\* permission alone
Permitted_First(requires, has_permissions) ==
    \A i \in 1..Len(requires) : requires[i].permission \in has_permissions

\* decorated_function of requires_permission, for every decorator of the
\* function: line 134
Permitted(requires, has_permissions) ==
    \A i \in 1..Len(requires) :
        \/ requires[i].permission \in has_permissions
        \/ has_permissions \cap requires[i].other # {}

\* view.view_functions[endpointname](view, **args)
Returned(f, method) == IF f.with_method THEN f.returns \o method ELSE f.returns
Viewed(f, endpoint, has_permissions, method) ==
    IF Permitted(f.requires, has_permissions)
    THEN Outcome(NoError, <<Returned(f, method)>>, None, <<endpoint>>, TRUE)
    ELSE Outcome(Forbidden, None, None, <<endpoint>>, FALSE)

\* NodeDispatcher.__call__(endpoint, args): has_permissions is what the
\* node grants the user with the permissions of the call
NodeDispatcher(registry, row, user, granted, endpoint, method) ==
    Viewed((CHOOSE v \in registry.viewlist : v.name = endpoint[1]).view_functions[endpoint[2]],
           endpoint,
           IF granted = None THEN permissions(row, user)
           ELSE permissions(row, user) \cup granted[1],
           method)

\* urls.dispatch(view_func, path_info=path_info) of werkzeug with the method
\* of the request: the first rule for the path that has the method is
\* called, MethodNotAllowed is raised where rules for the path have other
\* methods, and NotFound where there is no rule for the path
OnPath(urls, path_info) ==
    LET Is(r) == r.rule = path_info IN SelectSeq(urls, Is)
WithMethod(urls, method) ==
    LET Has(r) == method \in r.methods IN SelectSeq(urls, Has)
dispatch_Any(registry, row, user, granted, rules, method) ==
    IF rules # <<>>
    THEN NodeDispatcher(registry, row, user, granted, Head(rules).endpoint, method)
    ELSE Outcome(NotFound, None, None, None, FALSE)
dispatch(registry, row, user, granted, rules, method) ==
    IF WithMethod(rules, method) # <<>>
    THEN NodeDispatcher(registry, row, user, granted,
                        Head(WithMethod(rules, method)).endpoint, method)
    ELSE IF rules # <<>> THEN Outcome(MethodNotAllowed, None, None, None, FALSE)
    ELSE Outcome(NotFound, None, None, None, FALSE)

\* redirect(pathfragment, code=302), were it permanent
redirect_Permanent(pathfragment) == [code |-> 301, url |-> pathfragment[1]]
\* redirect(pathfragment, code=302)
redirect_to(pathfragment) == [code |-> 302, url |-> pathfragment[1]]

\* lines 266-281 of publish: t is what traverse returned
Published(S, registry, t, method, user, granted) ==
    IF t.exc # NoError THEN Outcome(t.exc, None, None, None, FALSE)
    ELSE IF t.status = REDIRECT
    THEN Outcome(NoError, None, <<redirect_to(t.path)>>, None, FALSE)
    ELSE IF t.status = NOROOT THEN Outcome(RootNotFound, None, None, None, FALSE)
    ELSE IF t.status = GONE THEN Outcome(NodeGone, None, None, None, FALSE)
    ELSE dispatch(registry, S.node[t.node], user, granted,
                  OnPath(OfType(registry.urlmaps, etype(S.node[t.node])),
                         IF t.status = MATCH THEN "/" ELSE t.path[1]),
                  method)

\* NodePublisher.publish(path, user, permissions) under a request with the
\* method
publish(S, self, registry, path, method, user, granted) ==
    Published(S, registry, traverse(S, self, path, TRUE), method, user, granted)

\* unicode.replace(old, new, 1), old not being empty: the first old of s
\* gives way to new
index(s, old) ==
    IF \E i \in 1..(Len(s) - Len(old) + 1) : SubSeq(s, i, i + Len(old) - 1) = old
    THEN CHOOSE i \in 1..(Len(s) - Len(old) + 1) :
             /\ SubSeq(s, i, i + Len(old) - 1) = old
             /\ \A j \in 1..(i - 1) : SubSeq(s, j, j + Len(old) - 1) # old
    ELSE 0
replace1(s, old, new) ==
    IF index(s, old) = 0 THEN s
    ELSE SubSeq(s, 1, index(s, old) - 1) \o new \o From(s, index(s, old) + Len(old) - 1)
\* unicode.replace(old, new): every old of s from the left, none overlapping
RECURSIVE replace(_, _, _)
replace(s, old, new) ==
    IF index(s, old) = 0 THEN s
    ELSE SubSeq(s, 1, index(s, old) - 1) \o new
             \o replace(From(s, index(s, old) + Len(old) - 1), old, new)

\* basepath2urlpath of url_for
basepath2urlpath(self, x) ==
    replace(replace1(x, self.basepath, self.urlpath), "//", "/")

\* What url_for returns or raises
Reversed(exc, url) == [exc |-> exc, url |-> url]
\* registry.urlmaps.get(node.etype): None for a type no view was registered
\* for, and iter_rules of None raises AttributeError
AttributeError == "AttributeError"
HasTable(urlmaps, nodetype) == \E i \in 1..Len(urlmaps) : urlmaps[i].nodetype = nodetype
\* NodePublisher.url_for(node, action), without _external and kwargs
url_for(S, self, registry, node, action) ==
    LET Is(rule) == rule.endpoint[2] = action
        found == SelectSeq(OfType(registry.urlmaps, etype(S.node[node])), Is)
    IN  IF ~HasTable(registry.urlmaps, etype(S.node[node]))
        THEN Reversed(AttributeError, None)
        ELSE IF found = <<>> THEN Reversed(ViewNotFound, None)
        ELSE Reversed(NoError,
                      <<basepath2urlpath(self, S.node[node].path \o Head(found).rule)>>)

\* --------------------------------------------------------------- revisions
\* A row of RevisionMixin in the session: node_id, workflow_label and
\* previous_id as the object has them, and written, the workflow_label of
\* its row in the table within the transaction: <<>> before the INSERT
Revision(node, workflow_label, previous) ==
    [label |-> workflow_label, node |-> node, previous |-> previous, written |-> <<>>]
\* The objects of the session the flush has a statement for
Dirty(revision) ==
    {r \in 1..Len(revision) : revision[r].written # <<revision[r].label>>}
\* UniqueConstraint('node_id', 'workflow_label') on the rows of the table;
\* a NULL is no value
LabelsUnique(revision) ==
    \A a, b \in 1..Len(revision) :
        (/\ a # b
         /\ revision[a].written # <<>> /\ revision[b].written # <<>>
         /\ revision[a].written # <<None>>
         /\ revision[a].node = revision[b].node)
        => revision[a].written # revision[b].written
\* The order of the statements of a flush.  Where no object has a change of
\* previous, the UPDATEs come in the order of the primary keys and before
\* the INSERTs; where one has, the objects are written one at a time in any
\* order that has an object after its previous.
Lowest(rows) == CHOOSE r \in rows : \A q \in rows : r <= q
Ready(revision, dirty, sorted) ==
    IF sorted
    THEN IF \E r \in dirty : revision[r].written # <<>>
         THEN {Lowest({r \in dirty : revision[r].written # <<>>})}
         ELSE {Lowest(dirty)}
    ELSE {r \in dirty : IF revision[r].previous = NULL THEN TRUE
                        ELSE revision[revision[r].previous].written # <<>>}
\* db.session.flush(): the outcomes of the statements in their order, each
\* under the constraint
RECURSIVE Flushes(_, _, _)
Flushes(S, dirty, sorted) ==
    IF dirty = {} THEN {[exc |-> NoError, store |-> S]}
    ELSE UNION {IF LabelsUnique([S.revision EXCEPT ![r].written = <<S.revision[r].label>>])
                THEN Flushes([S EXCEPT !.revision[r].written = <<S.revision[r].label>>],
                             dirty \ {r}, sorted)
                ELSE {[exc |-> IntegrityError, store |-> S]} :
                    r \in Ready(S.revision, dirty, sorted)}
flush(S) ==
    Flushes(S, Dirty(S.revision),
            \A r \in Dirty(S.revision) :
                S.revision[r].written = <<>> => S.revision[r].previous = NULL)

\* self.workflow_revision.get(workflow_label): ProxyDict.get, the first row
\* of self.revisions with the label, NULL for None
Labelled(S, self, workflow_label) ==
    {r \in 1..Len(S.revision) :
        S.revision[r].node = self /\ S.revision[r].written = <<workflow_label>>}
get(S, self, workflow_label) ==
    IF Labelled(S, self, workflow_label) = {} THEN NULL
    ELSE Lowest(Labelled(S, self, workflow_label))

\* RevisionMixin.copy()
copy(S, self) == Revision(S.revision[self].node, None, S.revision[self].previous)

\* What revise and set_workflow_label return or raise
Revised(exc, S, revision) == [exc |-> exc, revision |-> revision, store |-> S]
\* lines 162-166 of set_workflow_label: rev is the revision with the label
set_label(S, self, revision, workflow_label, rev) ==
    IF rev = NULL THEN [S EXCEPT !.revision[revision].label = workflow_label]
    ELSE [S EXCEPT !.revision[rev].label = None,
                   !.revision[revision].label = workflow_label]
\* lines 149-155 of revise: the new revision
revise_new(S, self, revision, workflow_label) ==
    IF revision # NULL
    THEN [S EXCEPT !.revision =
             Append(@, [copy(S, revision) EXCEPT !.previous = revision,
                                                 !.label = workflow_label])]
    ELSE [S EXCEPT !.revision = Append(@, Revision(self, workflow_label, NULL))]

\* RevisionedNodeMixin.revise(revision, workflow_label=workflow_label): the
\* outcomes, one for each order of the statements of its flushes; the query
\* of get flushes the session first
revise(S, self, revision, workflow_label) ==
    IF workflow_label = None
    THEN {Revised(NoError, revise_new(S, self, revision, workflow_label),
                  Len(S.revision) + 1)}
    ELSE UNION {
        IF f.exc # NoError THEN {Revised(f.exc, S, NULL)}
        ELSE IF get(f.store, self, workflow_label) = NULL
        THEN {Revised(NoError, revise_new(f.store, self, revision, workflow_label),
                      Len(S.revision) + 1)}
        ELSE {IF g.exc # NoError THEN Revised(g.exc, S, NULL)
              ELSE Revised(NoError,
                           revise_new(g.store, self, revision, workflow_label),
                           Len(S.revision) + 1) :
                 g \in flush([f.store EXCEPT
                                 !.revision[get(f.store, self, workflow_label)].label
                                     = None])} :
            f \in flush(S)}

\* RevisionedNodeMixin.set_workflow_label(revision, workflow_label)
set_workflow_label(S, self, revision, workflow_label) ==
    IF workflow_label = None
    THEN {Revised(NoError, set_label(S, self, revision, None, NULL), revision)}
    ELSE {IF f.exc # NoError THEN Revised(f.exc, S, NULL)
          ELSE Revised(NoError,
                       set_label(f.store, self, revision, workflow_label,
                                 get(f.store, self, workflow_label)),
                       revision) :
             f \in flush(S)}

\* ---------------------------------------------------------------- fixtures
Made(S, name, parent) == NewNode(S, <<name>>, parent).store

\* TestNodeTree.test_rename_alias: root, node1 and node2 under it
Siblings == Made(Made(Made(EmptyStore, "r", NULL), "a", 1), "b", 1)
\* TestNodeTree.test_rename_path: root, node1 under it, node2 under node1
Chain == Made(Made(Made(EmptyStore, "r", NULL), "a", 1), "b", 2)
\* TestNodeTree.test_rename_alias after node1 is renamed nodeX and node2 is
\* renamed node1
Aliased == RenameNode(RenameNode(Siblings, 2, <<"c">>).store, 3, <<"a">>).store
\* TestNodeTree.test_long_path: three levels of 250 characters, and a second
\* root as in test_double_root
Deep == Made(Made(Made(Made(Made(EmptyStore, "r", NULL),
                            Long("1"), 1), Long("2"), 2), Long("3"), 3),
             Long("4"), NULL)

\* TestProperties.test_inherited_properties: a property on the node between
\* the root and the leaf
Inherited == SetProperty(Chain, 2, "k", <<"p">>)

\* TestType(name=name, parent=parent), the model of test_nodetree.py
TestType(S, name, parent) ==
    [Made(S, name, parent) EXCEPT !.node[S.nextid].type = "test_type"]
\* node.itype = value (TestNodeTree.test_itype)
SetIType(S, self, value) == [S EXCEPT !.node[self].itype = value]
\* TestPermissionViews.setUp: a TestType under the root, the root being a
\* home page as in TestRegistry.test_register_itype_with_view, and below the
\* TestType a folder as in TestNodeTree.test_itype
Restricted ==
    SetIType(
        Made(SetIType(TestType(Made(EmptyStore, "r", NULL), "a", 1), 1, "home"),
             "b", 2),
        3, "folder")

\* The registry of TestPublishViews.setUp for the type of Node, that of
\* TestPermissionViews.setUp for TestType with the view of the docstring,
\* the instance type of TestRegistry.test_register_itype_with_view, and the
\* instance type of TestNodeTree.test_itype with the subclass alone
Registry ==
    register_node(
        register_node(
            register_view(
                register_node(
                    register_view(register_node(NodeRegistry, "node", MyNodeView),
                                  "node", ExpandedNodeView),
                    "test_type", RestrictedView),
                "test_type", DocNodeView),
            "home", MyNodeView),
        "folder", ExpandedNodeView)

\* The requests of TestPublishViews and TestPermissionViews: path, method,
\* and the user and the permissions given with the call
PublishPaths == {"/", "/a", "/a/edit", "/a/view", "/a/admin", "/a/b"}
Methods == {"GET", "POST", "PUT"}
PublishRequests ==
    {[method |-> m, path |-> p, permissions |-> None, user |-> None] :
        m \in Methods, p \in PublishPaths}
    \cup {[method |-> "GET", path |-> p, permissions |-> <<{"siteadmin"}>>,
           user |-> <<"user1">>] : p \in {"/", "/a/edit", "/a/admin"}}

\* The registry of TestCRUD.setUp: no view is registered
Viewless == NodeRegistry
\* The publishers and the actions of url_for: index is of every view, view
\* of RestrictedView alone
UrlMounts == {<<"/", None>>, <<"/a", <<"/">>>>, <<"/", <<"/u">>>>}
Actions == {"index", "view"}
UrlRequests ==
    {[action |-> a, basepath |-> m[1], registry |-> Registry, urlpath |-> m[2]] :
        a \in Actions, m \in UrlMounts}
    \cup {[action |-> "view", basepath |-> "/", registry |-> Viewless,
           urlpath |-> None]}

ShortNames == {None, <<" ">>, <<"a/b">>, <<"a">>, <<" b ">>, <<"c">>}
LongNames == {<<"a">>, <<Long("4")>>}
FewNames == {<<"c">>}
\* The names asked of getnode: those of the children of the root in
\* test_rename_alias
ChildNames == {"a", "b"}
\* The key of the assignments of TestNodeDict: a name that a child has in
\* the tree of test_rename_alias after the renames, and no child elsewhere
DictKeys == {<<"c">>}
PropKeys == {"k"}
PropValues == {None, <<"v">>}
Defaults == {None, <<"d">>}

\* The publishers of TestNodeTraversal and TestPublishViews, (basepath,
\* urlpath), and one that is not absolute
Mounts == {<<"/", None>>, <<"/a/", None>>, <<"/a", <<"/">>>>, <<"/", <<"/u">>>>,
           <<"a", None>>}
\* The paths of the tests under a publisher: with and without the first and
\* the last slash, and one with more slashes
Rests == {"", "a", "b", "a/b", "a/c"}
Url(u, rest) == IF rest = "" THEN u ELSE pathjoin(u, <<rest>>)
Requests(pub) ==
    IF pub.exc # NoError THEN {"/"}
    ELSE {Url(pub.urlpath, r) : r \in Rests}
         \cup {From(Url(pub.urlpath, r), 1) : r \in {"", "a/b"}}
         \cup {Url(pub.urlpath, r) \o "/" : r \in {"", "a/b"}}
         \cup {pub.urlpath \o "//b"}

Fixtures == {[names |-> ShortNames, store |-> EmptyStore],
             [names |-> ShortNames, store |-> Siblings],
             [names |-> ShortNames, store |-> Chain],
             [names |-> ShortNames, store |-> Aliased],
             [names |-> FewNames, store |-> Restricted],
             [names |-> LongNames, store |-> Deep],
             [names |-> FewNames, store |-> Inherited]}

\* ---------------------------------------------------------------- actions
Call(op, node, value, parent, exc) ==
    [exc |-> exc, node |-> node, op |-> op, parent |-> parent, value |-> value]

\* reply is what the last call returned, when it was one that reads
NoReply == [op |-> ""]

\* The sessions of the tests: db.session alone has a transaction open, and
\* of a second session the rows it holds and the rows both began with
Alone(S) == [begun |-> S, open |-> {1}, store |-> S]

Init ==
    \E f \in Fixtures :
        /\ db = f.store
        /\ sess = f.store
        /\ names = f.names
        /\ room = f.store.nextid + MaxNew
        /\ call = Call("init", NULL, None, NULL, NoError)
        /\ reply = NoReply
        /\ steps = 0
        /\ peer = Alone(f.store)

Turn == steps < MaxSteps /\ steps' = steps + 1 /\ names' = names /\ room' = room
Step == Turn /\ peer' = peer
\* A test ends with the call whose result it asserts
Last ==
    /\ steps < MaxSteps /\ steps' = MaxSteps /\ names' = names /\ room' = room
    /\ peer' = peer

\* node = Node(name=value, parent=parent); db.session.add(node)
Create(value, parent) ==
    /\ Step
    /\ sess.nextid < room
    /\ \E r \in {NewNode(sess, value, parent)} :
           /\ sess' = r.store
           /\ call' = Call("Node", IF r.exc = NoError THEN sess.nextid ELSE NULL,
                           value, parent, r.exc)
    /\ db' = db
    /\ reply' = NoReply

\* node.name = value
Rename(node, value) ==
    /\ Step
    /\ Acyclic(sess.node, node)
    /\ \E r \in {RenameNode(sess, node, value)} :
           /\ sess' = r.store
           /\ call' = Call("name", node, value, NULL, r.exc)
    /\ db' = db
    /\ reply' = NoReply

\* node.parent = parent
Reparent(node, parent) ==
    /\ Step
    /\ Acyclic(sess.node, node)
    /\ \E r \in {SetParent(sess, node, parent)} :
           /\ sess' = r.store
           /\ call' = Call("parent", node, None, parent, r.exc)
    /\ db' = db
    /\ reply' = NoReply

\* The flush orders the rows of a table by their parent: a session whose
\* parents form a cycle is not flushed here.
Flushable(S) == \A n \in Live(S) : n \notin Descendants(S.node, n)

\* db.session.delete(node), flushed
Delete(node) ==
    /\ Step
    /\ Flushable(sess)
    /\ sess' = DeleteNode(sess, node)
    /\ call' = Call("delete", node, None, NULL, NoError)
    /\ db' = db
    /\ reply' = NoReply

\* The row the IntegrityError of UniqueConstraint('parent_id', 'name') names:
\* the later of two rows with one parent and one name, NULL when there is none
Duplicate(S) ==
    LET rows == {y \in Live(S) : \E x \in Live(S) :
                    /\ x < y /\ S.node[x].parent # NULL
                    /\ S.node[x].parent = S.node[y].parent
                    /\ S.node[x].name = S.node[y].name}
    IN  IF rows = {} THEN NULL ELSE CHOOSE y \in rows : \A x \in rows : x <= y

\* db.session.commit(): a violated constraint raises IntegrityError and the
\* transaction is rolled back
Commit ==
    /\ Step
    /\ Flushable(sess)
    /\ IF UniqueConstraints(sess)
       THEN db' = sess /\ sess' = sess /\ call' = Call("commit", NULL, None, NULL, NoError)
       ELSE db' = db /\ sess' = db
            /\ call' = Call("commit", Duplicate(sess), None, NULL, IntegrityError)
    /\ reply' = NoReply

\* db.session.rollback()
Rollback ==
    /\ Step
    /\ sess' = db
    /\ db' = db
    /\ reply' = NoReply
    /\ call' = Call("rollback", NULL, None, NULL, NoError)

\* node.properties[key] = value
SetProp(node, key, value) ==
    /\ Step
    /\ sess' = SetProperty(sess, node, key, value)
    /\ call' = Call("properties", node, value, NULL, NoError)
    /\ db' = db
    /\ reply' = NoReply

\* node.getprop(key, default)
GetProp(node, key, default) ==
    /\ Last
    /\ Returns(sess.node, node, key, {})
    /\ reply' = [default |-> default, key |-> key, node |-> node, op |-> "getprop",
                 value |-> getprop(sess.node, node, key, default)]
    /\ call' = Call("getprop", node, None, NULL, NoError)
    /\ UNCHANGED <<db, sess>>

\* NodePublisher(root, registry, basepath, urlpath).traverse(path, redirect),
\* for a path of Requests
Traverse(root, basepath, urlpath, redirect) ==
    /\ Last
    /\ Flushable(sess)
    /\ \E pub \in {NodePublisher(root, basepath, urlpath)} :
       \E path \in Requests(pub) :
       \E r \in {IF pub.exc # NoError THEN Result(pub.exc, NOROOT, NULL, None)
                  ELSE traverse(sess, pub, path, redirect)} :
           /\ reply' = [exc |-> r.exc, node |-> r.node, op |-> "traverse",
                        path |-> path, pub |-> pub, redirect |-> redirect,
                        result |-> r.path, status |-> r.status]
           /\ sess' = IF r.exc = IntegrityError THEN db ELSE sess
           /\ call' = Call("traverse",
                           IF r.exc = IntegrityError THEN Duplicate(sess) ELSE NULL,
                           None, NULL, r.exc)
    /\ db' = db

\* publisher = NodePublisher(root, registry, u'/'); publisher.publish(path,
\* user, permissions) under test_request_context(method=method)
Publish(root, request) ==
    /\ Last
    /\ Flushable(sess)
    /\ \E pub \in {NodePublisher(root, "/", None)} :
       \E o \in {publish(sess, pub, Registry, request.path, request.method,
                         request.user, request.permissions)} :
           /\ reply' = [called |-> o.called, exc |-> o.exc, location |-> o.location,
                        method |-> request.method, op |-> "publish",
                        path |-> request.path, permissions |-> request.permissions,
                        pub |-> pub, ran |-> o.ran, response |-> o.response,
                        user |-> request.user]
           /\ sess' = IF o.exc = IntegrityError THEN db ELSE sess
           /\ call' = Call("publish",
                           IF o.exc = IntegrityError THEN Duplicate(sess) ELSE NULL,
                           None, NULL, o.exc)
    /\ db' = db

\* NodePublisher(root, registry, basepath, urlpath).url_for(node, action)
UrlFor(registry, basepath, urlpath, node, action) ==
    /\ Last
    /\ \E pub \in {NodePublisher(1, basepath, urlpath)} :
       \E r \in {url_for(sess, pub, registry, node, action)} :
           /\ reply' = [action |-> action, exc |-> r.exc, node |-> node,
                        op |-> "url_for", pub |-> pub,
                        registered |-> registry = Registry, url |-> r.url]
           /\ call' = Call("url_for", node, None, NULL, r.exc)
    /\ UNCHANGED <<db, sess>>

\* node.getnode(name), default left out.  The queries of ProxyDict.get flush
\* the session first.
GetNode(node, name) ==
    /\ Last
    /\ Flushable(sess)
    /\ IF UniqueConstraints(sess)
       THEN /\ reply' = [name |-> name, node |-> node, op |-> "getnode",
                         value |-> getnode(sess, node, name, NULL)]
            /\ sess' = sess
            /\ call' = Call("getnode", node, <<name>>, NULL, NoError)
       ELSE /\ reply' = NoReply
            /\ sess' = db
            /\ call' = Call("getnode", Duplicate(sess), <<name>>, NULL, IntegrityError)
    /\ db' = db

\* owner.nodes[key] = node (TestNodeDict.test_setitem).  self[key] is a query,
\* which flushes the session first.
SetItem(owner, key, node) ==
    /\ Last
    /\ Flushable(sess)
    /\ IF UniqueConstraints(sess)
       THEN \E r \in {__setitem__(sess, owner, key, node)} :
                /\ sess' = r.store
                /\ call' = Call("setitem", node, key, owner, r.exc)
       ELSE /\ sess' = db
            /\ call' = Call("setitem", Duplicate(sess), key, owner, IntegrityError)
    /\ db' = db
    /\ reply' = NoReply

Next ==
    \/ \E value \in names, parent \in Live(sess) \cup {NULL} : Create(value, parent)
    \/ \E node \in Live(sess), value \in names : Rename(node, value)
    \/ \E node \in Live(sess), parent \in Live(sess) \cup {NULL} : Reparent(node, parent)
    \/ \E node \in Live(sess) : Delete(node)
    \/ Commit
    \/ Rollback
    \/ \E node \in Live(sess), key \in PropKeys, value \in PropValues :
           SetProp(node, key, value)
    \/ \E node \in Live(sess), key \in PropKeys, default \in Defaults :
           GetProp(node, key, default)
    \/ \E m \in Mounts, root \in Roots(sess) \cup {1}, redirect \in BOOLEAN :
           Traverse(root, m[1], m[2], redirect)
    \/ \E root \in Roots(sess) \cup {1}, request \in PublishRequests :
           Publish(root, request)
    \/ \E node \in Live(sess), request \in UrlRequests :
           UrlFor(request.registry, request.basepath, request.urlpath, node,
                  request.action)
    \/ \E owner \in Live(sess), key \in DictKeys, node \in Live(sess) :
           SetItem(owner, key, node)
    \/ \E node \in Live(sess), name \in ChildNames : GetNode(node, name)

Spec == Init /\ [][Next]_vars

\* ------------------------------------------------- concurrent transactions
\* Two sessions, each with a transaction that began on the committed rows
\* peer.begun, and a reader whose statements each see the rows committed by
\* then (READ COMMITTED, the default of the PostgreSQL of test_db.py).
Work(i) == IF i = 1 THEN sess ELSE peer.store

\* The primary key in the table of a row of a session: a row made in the
\* transaction takes its key from the sequence of the table at the flush
Key(B, C, n) == IF n >= B.nextid THEN n + (C.nextid - B.nextid) ELSE n
\* The flush of one row: INSERT of a row made in the transaction, UPDATE of
\* the columns the session changed of a row it loaded
Written(B, W, C, n) ==
    LET Column(col) == IF n \notin Live(B) \/ W.node[n][col] # B.node[n][col]
                       THEN W.node[n][col] ELSE C.node[n][col]
    IN  [itype |-> Column("itype"), name |-> Column("name"),
         parent |-> Key(B, C, Column("parent")), path |-> Column("path"),
         properties |-> Column("properties"), root |-> Key(B, C, Column("root")),
         type |-> Column("type")]
RECURSIVE WrittenRows(_, _, _, _)
WrittenRows(B, W, C, rows) ==
    IF rows = {} THEN <<>>
    ELSE LET n == CHOOSE m \in rows : TRUE
         IN  (Key(B, C, n) :> Written(B, W, C, n))
                 @@ WrittenRows(B, W, C, rows \ {n})
\* The flush of a session that loaded the rows B and holds the rows W, on
\* the committed rows C: the rows of node it made or changed, and the rows
\* of node_alias it made (INSERT) or repointed (UPDATE by primary key)
Flushed(B, W, C) ==
    LET dirty == {n \in Live(W) : IF n \in Live(B) THEN W.node[n] # B.node[n]
                                  ELSE TRUE}
        made == {[name |-> a.name, node |-> Key(B, C, a.node),
                  parent |-> Key(B, C, a.parent)] : a \in W.alias \ B.alias}
        repointed == {a \in C.alias : \E b \in W.alias \ B.alias, c \in B.alias :
                          /\ b.parent = a.parent /\ b.name = a.name
                          /\ c.parent = a.parent /\ c.name = a.name}
    IN  [alias |-> (C.alias \ repointed) \cup made,
         nextid |-> C.nextid + (W.nextid - B.nextid),
         node |-> WrittenRows(B, W, C, dirty) @@ C.node,
         revision |-> C.revision,
         vacated |-> C.vacated \cup W.vacated]

\* The rows of session i become S
Holds(i, S) ==
    IF i = 1 THEN sess' = S /\ peer' = peer
    ELSE sess' = sess /\ peer' = [peer EXCEPT !.store = S]

\* node = Node(name=value, parent=parent); db.session.add(node) in session i
CreateIn(i, value, parent) ==
    /\ Turn
    /\ i \in peer.open
    /\ Work(i).nextid < room
    /\ \E r \in {NewNode(Work(i), value, parent)} :
           /\ Holds(i, r.store)
           /\ call' = Call("Node", IF r.exc = NoError THEN Work(i).nextid ELSE NULL,
                           value, parent, r.exc)
    /\ db' = db
    /\ reply' = reply

\* node.name = value in session i
RenameIn(i, node, value) ==
    /\ Turn
    /\ i \in peer.open
    /\ \E r \in {RenameNode(Work(i), node, value)} :
           /\ Holds(i, r.store)
           /\ call' = Call("name", node, value, NULL, r.exc)
    /\ db' = db
    /\ reply' = reply

\* The reader between its statements: the rows committed since its query
Since(S) ==
    IF reply.op = "search" THEN [reply EXCEPT !.since = Append(@, S)] ELSE reply

\* db.session.commit() in session i: the flush, then the end of the
\* transaction; a violated constraint raises IntegrityError and the
\* transaction is rolled back
CommitIn(i) ==
    /\ i \in peer.open
    /\ \E m \in {Flushed(peer.begun, Work(i), db)} :
           IF UniqueConstraints(m)
           THEN /\ db' = m
                /\ sess' = (IF i = 1 THEN m ELSE sess)
                /\ peer' = [peer EXCEPT !.open = @ \ {i},
                                        !.store = IF i = 2 THEN m ELSE @]
                /\ call' = Call("commit", NULL, None, NULL, NoError)
                /\ reply' = Since(m)
           ELSE /\ db' = db
                /\ sess' = (IF i = 1 THEN db ELSE sess)
                /\ peer' = [peer EXCEPT !.open = @ \ {i},
                                        !.store = IF i = 2 THEN db ELSE @]
                /\ call' = Call("commit", Duplicate(m), None, NULL, IntegrityError)
                /\ reply' = reply
    /\ UNCHANGED <<names, room, steps>>

\* traverse of a reader, its first statement: the query of the nodes on the
\* paths, on the rows committed by now
Search(path) ==
    /\ reply = NoReply
    /\ reply' = [op |-> "search", path |-> path,
                 pub |-> NodePublisher(1, "/", None), seen |-> db, since |-> <<>>]
    /\ call' = Call("search", NULL, None, NULL, NoError)
    /\ UNCHANGED <<db, sess, peer, names, room, steps>>

\* The rows a reader holds at its second statement: the nodes its query
\* loaded as they were then, whatever else it loads as committed by now
Seen(A, C, loaded) == [C EXCEPT !.node = Rows(A.node, loaded) @@ C.node]
\* traverse with the query on the rows A and the alias on the rows C
traverse_across(A, C, self, path, redirect) ==
    LET tree == _make_path_tree(self.basepath, From(Rooted(path), Len(self.urlpath)))
        nodes == Query(A, self, tree.searchpaths)
    IN  IF ~startswith(Rooted(path), self.urlpath)
        THEN Result(NoError, NOROOT, NULL, <<Rooted(path)>>)
        ELSE Queried(Seen(A, C, nodes), self, tree.searchpath, nodes, redirect)

\* traverse of a reader, from NodeAlias.query on: on the rows committed by now
Lookup ==
    /\ reply.op = "search"
    /\ \E r \in {traverse_across(reply.seen, db, reply.pub, reply.path, TRUE)} :
           reply' = [exc |-> r.exc, node |-> r.node, op |-> "traverse",
                     path |-> reply.path, pub |-> reply.pub, redirect |-> TRUE,
                     result |-> r.path, seen |-> reply.seen, since |-> reply.since,
                     status |-> r.status]
    /\ call' = Call("traverse", NULL, None, NULL, NoError)
    /\ UNCHANGED <<db, sess, peer, names, room, steps>>

\* TestNodeTree.test_rename_alias in two sessions and a reader
RaceNames == {<<"b">>, <<"c">>}
RacePaths == {"/b", "/c"}
Races == {Siblings, Aliased}
InitRace ==
    \E S \in Races :
        /\ db = S
        /\ sess = S
        /\ peer = [begun |-> S, open |-> {1, 2}, store |-> S]
        /\ names = RaceNames
        /\ room = S.nextid + MaxNew
        /\ call = Call("init", NULL, None, NULL, NoError)
        /\ reply = NoReply
        /\ steps = 0

NextRace ==
    \/ \E i \in {1, 2}, value \in names : \E parent \in Roots(Work(i)) :
           CreateIn(i, value, parent)
    \/ \E i \in {1, 2}, value \in names : \E node \in Live(Work(i)) :
           RenameIn(i, node, value)
    \/ \E i \in {1, 2} : CommitIn(i)
    \/ \E path \in RacePaths : Search(path)
    \/ Lookup

Concurrent == InitRace /\ [][NextRace]_vars

\* ---------------------------------------------------------- revisioned nodes
\* TestNodeRevisions.test_default_revision: doc1, a MyDocument under the
\* root, committed without a revision
Stub ==
    [Made(Made(EmptyStore, "r", NULL), "d", 1) EXCEPT !.node[2].type = "my_document"]
\* A revision as committed
Committed_as(node, workflow_label, previous) ==
    [Revision(node, workflow_label, previous) EXCEPT !.written = <<workflow_label>>]
\* TestNodeRevisions.test_revision_label after rev3 is committed: rev1 and
\* rev2 without a label, rev3 the draft
Drafted ==
    [Stub EXCEPT !.revision = <<Committed_as(2, None, NULL),
                                Committed_as(2, None, 1),
                                Committed_as(2, <<"draft">>, 2)>>]
Documents == {Stub, Drafted}
Labels == {None, <<"draft">>, <<"published">>}

InitRevisions ==
    \E S \in Documents :
        /\ db = S
        /\ sess = S
        /\ peer = Alone(S)
        /\ names = {}
        /\ room = Len(S.revision) + MaxNew
        /\ call = Call("init", NULL, None, NULL, NoError)
        /\ reply = NoReply
        /\ steps = 0

\* A statement of a test on the revisions: an exception of a flush leaves
\* the session with the committed rows
Stated(op, r, source, workflow_label) ==
    /\ sess' = (IF r.exc = NoError THEN r.store ELSE db)
    /\ call' = Call(op, r.revision, workflow_label, source, r.exc)
    /\ db' = db
    /\ reply' = NoReply

\* rev = doc1.revise(revision, workflow_label=workflow_label)
Revise(self, revision, workflow_label) ==
    /\ Step
    /\ Len(sess.revision) < room
    /\ \E r \in revise(sess, self, revision, workflow_label) :
           Stated("revise", r, revision, workflow_label)

\* doc1.set_workflow_label(revision, workflow_label)
SetWorkflowLabel(self, revision, workflow_label) ==
    /\ Step
    /\ \E r \in set_workflow_label(sess, self, revision, workflow_label) :
           Stated("set_workflow_label", r, revision, workflow_label)

\* db.session.commit() of the revisions
CommitRevisions ==
    /\ Step
    /\ \E f \in flush(sess) :
           /\ db' = (IF f.exc = NoError THEN f.store ELSE db)
           /\ sess' = (IF f.exc = NoError THEN f.store ELSE db)
           /\ call' = Call("commit", NULL, None, NULL, f.exc)
    /\ reply' = NoReply

NextRevisions ==
    \/ \E revision \in (1..Len(sess.revision)) \cup {NULL}, workflow_label \in Labels :
           Revise(2, revision, workflow_label)
    \/ \E revision \in 1..Len(sess.revision), workflow_label \in Labels :
           SetWorkflowLabel(2, revision, workflow_label)
    \/ CommitRevisions

Revisions == InitRevisions /\ [][NextRevisions]_vars

\* ----------------------------------------------------------------- claims

\* C1: after any creations, renames and reparents, every node that has a
\* parent has the path pathjoin(parent.path, name).
C1_PathIsParentPathAndName ==
    \A n \in Parented(sess) :
        /\ sess.node[n].parent \in Live(sess)
        /\ sess.node[n].path = pathjoin(sess.node[sess.node[n].parent].path,
                                        <<sess.node[n].name>>)

\* C2: every node without a parent has the path "/", also one that had a
\* parent and was made parentless.
C2_ParentlessPathIsSlash ==
    \A n \in Roots(sess) : sess.node[n].path = "/"

\* C3: every node has a root; a node without a parent is its own root, a
\* node with a parent has the root of its parent, so that a reparent gives
\* the root of the new parent to the whole subtree.
C3_RootIsRootOfParent ==
    \A n \in Live(sess) :
        /\ sess.node[n].root \in Live(sess)
        /\ n \in Roots(sess) => sess.node[n].root = n
        /\ n \in Parented(sess) =>
               sess.node[n].root = sess.node[sess.node[n].parent].root

\* The alias rows of one key, and the alias rows under one parent
Keyed(alias, parent, name) == {a \in alias : a.parent = parent /\ a.name = name}
Under(alias, parent) == {a \in alias : a.parent = parent}

\* C4: when a node with parent P is renamed from old to a different valid
\* name, then right afterwards there is exactly one alias with key (P, old)
\* and it references the renamed node: an alias that had the key is
\* repointed, otherwise one is created, and no other alias changes.
C4_RenameLeavesAlias ==
    [][\A n \in Live(sess) :
          (/\ call'.op = "name" /\ call'.node = n /\ call'.exc = NoError
           /\ sess.node[n].parent # NULL
           /\ sess'.node[n].name # sess.node[n].name)
          => LET P == sess.node[n].parent
                 old == sess.node[n].name
             IN  /\ Keyed(sess'.alias, P, old) =
                        {[name |-> old, node |-> n, parent |-> P]}
                 /\ Cardinality(Keyed(sess.alias, P, old)) <= 1
                 /\ sess'.alias \ Keyed(sess'.alias, P, old) =
                        sess.alias \ Keyed(sess.alias, P, old)]_vars

\* C4 witness: a rename has repointed to the renamed node an alias that the
\* committed store has on another node.
C4_Repointed ==
    /\ call.op = "name" /\ call.exc = NoError
    /\ \E a \in sess.alias, b \in db.alias :
          /\ a.parent = b.parent /\ a.name = b.name
          /\ a.node = call.node /\ b.node \notin {NULL, call.node}
          /\ a.parent = sess.node[call.node].parent

\* C5: under every parent there is at most one alias for a name, and as many
\* aliases as there are names that were vacated under it (by a rename or by a
\* delete).
C5_OneAliasPerVacatedName ==
    \A P \in Live(sess) :
        /\ \A a, b \in Under(sess.alias, P) : a.name = b.name => a = b
        /\ Cardinality(Under(sess.alias, P)) =
               Cardinality({v \in sess.vacated : v[1] = P})

\* C6: a delete of a node named n whose parent P stays leaves exactly one
\* alias with key (P, n), with no node reference; no alias appears under any
\* other key, so the descendants that go with the node get none.
C6_DeleteLeavesGoneMarker ==
    [][\A n \in Live(sess) :
          (/\ call'.op = "delete" /\ call'.node = n
           /\ sess.node[n].parent # NULL
           /\ sess.node[n].parent \in Live(sess'))
          => LET P == sess.node[n].parent
                 name == sess.node[n].name
             IN  /\ Keyed(sess'.alias, P, name) =
                        {[name |-> name, node |-> NULL, parent |-> P]}
                 /\ \A a \in sess'.alias \ Keyed(sess'.alias, P, name) :
                        Keyed(sess.alias, a.parent, a.name) # {}]_vars

\* C6 witness: a delete has taken a node and a descendant of it, and the only
\* alias there is, is the gone-marker under the parent that stays.
C6_GoneMarkerLeft ==
    /\ call.op = "delete"
    /\ Cardinality(Live(db) \ Live(sess)) >= 2
    /\ \E a \in sess.alias :
          /\ sess.alias = {a}
          /\ a.node = NULL /\ a.parent \in Live(sess)
          /\ a.name = db.node[call.node].name

HasSlash(s) == \E i \in 1..Len(s) : CharAt(s, i) = "/"
Blank(s) == \A i \in 1..Len(s) : CharAt(s, i) = " "
Refused(value) == value = None \/ HasSlash(value[1]) \/ Blank(value[1])
\* t is s without the spaces around it
Trimmed(s, t) ==
    /\ t # "" /\ CharAt(t, 1) # " " /\ CharAt(t, Len(t)) # " "
    /\ \E i \in 0..(Len(s) - Len(t)) :
          /\ Blank(SubSeq(s, 1, i))
          /\ SubSeq(s, i + 1, i + Len(t)) = t
          /\ Blank(SubSeq(s, i + Len(t) + 1, Len(s)))

\* C8: a name that is None, has a slash in it or is empty once trimmed is
\* refused with the invalid-name error, when a node is made and when it is
\* renamed, and nothing changes; a name that is stored is stored trimmed.
C8_InvalidNameRefused ==
    [][/\ call'.op \in {"Node", "name"} =>
              (call'.exc = InvalidName <=> Refused(call'.value))
       /\ call'.exc = InvalidName => sess' = sess /\ db' = db
       /\ call'.op \in {"Node", "name"} /\ call'.exc = NoError =>
              Trimmed(call'.value[1], sess'.node[call'.node].name)]_vars

\* C8 witness: a rename to a name of spaces was refused.
C8_BlankRefused ==
    /\ call.op = "name" /\ call.exc = InvalidName
    /\ call.value # None /\ Blank(call.value[1]) /\ ~HasSlash(call.value[1])

\* C9: an operation that fails with the path-length error leaves the tree
\* and the aliases as they were.
C9_TooLongChangesNothing ==
    [][call'.exc = PathTooLong => sess' = sess /\ db' = db]_vars

\* What is committed has no two nodes with the same parent and name, and no
\* two with the same root and path
Committed(S) ==
    /\ \A x, y \in Live(S) :
          /\ S.node[x].parent # NULL
          /\ S.node[x].parent = S.node[y].parent
          /\ S.node[x].name = S.node[y].name
          => x = y
    /\ \A x, y \in Live(S) :
          S.node[x].root = S.node[y].root /\ S.node[x].path = S.node[y].path
          => x = y
DuplicateChild(S) ==
    \E x, y \in Parented(S) :
        /\ x # y
        /\ S.node[x].parent = S.node[y].parent
        /\ S.node[x].name = S.node[y].name

\* C10: every committed state has unique (parent, name) among the nodes with
\* a parent and unique (root, path); a commit with two children of one
\* parent under one name fails and commits nothing.  Roots, each with the
\* path "/", are not held apart by this.
C10_CommittedIsUnique ==
    /\ Committed(db)
    /\ [][/\ Committed(db')
          /\ call'.op = "commit" /\ DuplicateChild(sess) =>
                 call'.exc = IntegrityError /\ db' = db]_vars

\* C10 witness: a commit of a second child under a name its parent already
\* has was refused, and the session is back at what was committed.
C10_DuplicateRefused ==
    /\ call.op = "commit" /\ call.exc = IntegrityError /\ call.node # NULL
    /\ sess = db /\ Committed(db)

\* The chain self, parent, ... up to the node without a parent, or up to the
\* node whose parent is on the chain already
RECURSIVE Upto(_, _, _)
Upto(node, self, seen) ==
    IF self = NULL \/ self \in seen THEN <<>>
    ELSE <<self>> \o Upto(node, node[self].parent, seen \cup {self})
Line(node, self) == Upto(node, self, {})
\* The nodes that have the key
Holders(node, key) == {m \in DOMAIN node : key \in DOMAIN node[m].properties}

\* C11: getprop(key, default) on a node returns the value the nearest node of
\* the chain node, parent, ..., root has under the key, and default when no
\* node of the chain has the key; a key that only one node A has is seen
\* from A and the nodes below it and from no other node.
C11_NearestHolderOrDefault ==
    [][reply'.op = "getprop" =>
          LET node == sess.node
              line == Line(node, reply'.node)
              has == {i \in 1..Len(line) : line[i] \in Holders(node, reply'.key)}
          IN  /\ has = {} => reply'.value = reply'.default
              /\ \A i \in has :
                     (\A j \in has : i <= j) =>
                         reply'.value = node[line[i]].properties[reply'.key]
              /\ \A A \in Live(sess) :
                     Holders(node, reply'.key) = {A} =>
                         reply'.value =
                             IF reply'.node \in Subtree(node, A)
                             THEN node[A].properties[reply'.key]
                             ELSE reply'.default]_vars

\* C11 witness: getprop on a node that has None under the key returned the
\* None, and not the value its parent has under the key nor the default.
C11_NearestWins ==
    /\ call.op = "getprop" /\ reply.op = "getprop" /\ reply.value = None /\ reply.default # None
    /\ reply.key \in DOMAIN sess.node[reply.node].properties
    /\ sess.node[reply.node].parent # NULL
    /\ reply.key \in DOMAIN sess.node[sess.node[reply.node].parent].properties
    /\ sess.node[sess.node[reply.node].parent].properties[reply.key] # None

\* A request for rest under urlpath, as it is written with and without the
\* first slash and with a slash after it; rest under basepath
Forms(url) == {url, From(url, 1), url \o "/"}
Target(basepath, rest) ==
    IF rest = "" THEN basepath
    ELSE IF basepath = "/" THEN "/" \o rest
    ELSE basepath \o "/" \o rest
\* The nodes of the tree of the publisher that have the path
At(S, pub, path) ==
    {n \in Live(S) : S.node[n].root = pub.root_id /\ S.node[n].path = path}
Answered(r) == r.op = "traverse" /\ r.exc = NoError

\* C12: a request for rest under urlpath, with or without the first slash
\* and with or without a slash at the end, where a node of the tree of the
\* root has the path basepath joined with rest, is answered (MATCH, that
\* node, None); the request "/" or "" of a publisher at "/" is answered with
\* the node at basepath.
C12_ExistingPathMatches ==
    [][Answered(reply') =>
          \A rest \in Rests :
              reply'.path \in Forms(Url(reply'.pub.urlpath, rest)) =>
                  \A n \in At(sess, reply'.pub, Target(reply'.pub.basepath, rest)) :
                      /\ reply'.status = MATCH
                      /\ reply'.node = n
                      /\ reply'.result = None]_vars

\* C12 witness: the empty request to a publisher of /a at the URL / was
\* answered with the node at /a.
C12_EmptyMatchesBase ==
    /\ Answered(reply) /\ reply.path = "" /\ reply.status = MATCH
    /\ reply.pub.basepath = "/a" /\ reply.pub.urlpath = "/"
    /\ reply.node \in Live(sess) /\ sess.node[reply.node].path = "/a"

\* path is the path of basepath or of a place below it
AtOrBelow(basepath, path) ==
    path = basepath \/ basepath = "/" \/ startswith(path, basepath \o "/")
\* A path at or below basepath, as a URL of the publisher
UrlOf(pub, path) ==
    LET tail == IF pub.basepath = "/" THEN path ELSE From(path, Len(pub.basepath))
    IN  IF pub.urlpath = "/" THEN (IF tail = "" THEN "/" ELSE tail)
        ELSE pub.urlpath \o tail
\* What comes after the path old in the path target: nothing or more names
Beneath(old, target) == target = old \/ startswith(target, old \o "/")

\* The children of parent that have the name
Called(S, parent, name) ==
    {m \in Live(S) : S.node[m].parent = parent /\ S.node[m].name = name}

C14_DeletedIsGone ==
    [][\A n \in Live(sess) :
          (/\ call'.op = "delete" /\ call'.node = n
           /\ sess.node[n].parent # NULL
           /\ Called(sess', sess.node[n].parent, sess.node[n].name) = {})
          => LET P == sess.node[n].parent
             IN  \A m \in Mounts, rest \in Rests :
                     LET pub == NodePublisher(sess.node[P].root, m[1], m[2])
                     IN  (/\ pub.exc = NoError
                          /\ AtOrBelow(pub.basepath, sess.node[P].path)
                          /\ Beneath(Target(sess.node[P].path, sess.node[n].name),
                                     Target(pub.basepath, rest)))
                         => LET r == traverse(sess', pub, Url(pub.urlpath, rest), TRUE)
                            IN  r.exc = NoError =>
                                    r.status = GONE /\ r.node = P]_vars

\* C14 witness: after the delete of the node at /a, which had the node at
\* /a/b below it, the path /a/b was answered GONE with the root.
C14_GoneBeneath ==
    /\ Answered(reply) /\ reply.status = GONE /\ reply.path = "/a/b"
    /\ reply.pub.basepath = "/" /\ reply.pub.urlpath = "/"
    /\ reply.node \in Roots(sess)
    /\ \E n \in Live(db) \ Live(sess) : db.node[n].path = "/a/b"
    /\ \E a \in sess.alias : a.parent = reply.node /\ a.name = "a" /\ a.node = NULL

\* The part of the path asked for that comes after the path of the node,
\* with one slash before it
Remainder(S, pub, path, node) ==
    "/" \o StripLeading(From(_make_path_tree(pub.basepath,
                                             From(Rooted(path), Len(pub.urlpath))).searchpath,
                             Len(S.node[node].path)))

Prefixes(S, pub, target) ==
    {n \in Live(S) : /\ S.node[n].root = pub.root_id
                     /\ (S.node[n].path = "/" \/ Beneath(S.node[n].path, target))}
Deepest(S, set) ==
    {n \in set : \A m \in set : Len(S.node[m].path) <= Len(S.node[n].path)}
\* The names of target after the path of the node L, joined with slashes
After(S, L, target) == StripLeading(From(target, Len(S.node[L].path)))

C17_NoBaseIsNoRoot ==
    [][(/\ Answered(reply')
        /\ \/ At(sess, reply'.pub, reply'.pub.basepath) = {}
           \/ ~startswith(Rooted(reply'.path), reply'.pub.urlpath))
       => reply'.status = NOROOT /\ reply'.node = NULL]_vars

\* A call of publish that has returned or raised, the flush of the session
\* having gone through
Publication(r) == r.op = "publish" /\ r.exc # IntegrityError
\* The rules of the table of the type of the node, its instance type where
\* it has one, that are for the path and have the method
RulesFor(row, path_info, method) ==
    {r \in Range(Registry.urlmaps) :
        /\ r.nodetype = IF row.itype # "" THEN row.itype ELSE row.type
        /\ r.rule = path_info /\ method \in r.methods}

\* The rules of the table of the type of the node that are for the path,
\* whatever their methods
RulesOn(row, path_info) ==
    {r \in Range(Registry.urlmaps) :
        /\ r.nodetype = IF row.itype # "" THEN row.itype ELSE row.type
        /\ r.rule = path_info}
\* The path publish dispatches for what traverse returned
PathInfo(t) == IF t.status = MATCH THEN "/" ELSE t.path[1]

\* C18: publish answers as traverse with redirects classifies the path:
\* REDIRECT is a redirect with the code 302 to the path traverse returned,
\* NOROOT raises RootNotFound, GONE raises NodeGone, and in these three no
\* view function is called; MATCH calls a view function of a rule for the
\* path / and PARTIAL one of a rule for the remainder, the rule being of the
\* table of the type (etype) of the node traverse returned.
C18_PublishMapsStatus ==
    [][Publication(reply') =>
          \A t \in {traverse(sess, reply'.pub, reply'.path, TRUE)} :
              /\ t.status = REDIRECT
                    => /\ reply'.exc = NoError /\ reply'.response = None
                       /\ reply'.location = <<[code |-> 302, url |-> t.path[1]]>>
                       /\ reply'.called = None
              /\ t.status = NOROOT
                    => reply'.exc = RootNotFound /\ reply'.called = None
              /\ t.status = GONE
                    => reply'.exc = NodeGone /\ reply'.called = None
              /\ t.status \in {MATCH, PARTIAL}
                    => \A for \in {RulesFor(sess.node[t.node], PathInfo(t),
                                              reply'.method)} :
                           /\ reply'.location = None
                           /\ for # {} => reply'.called # None
                           /\ reply'.called # None
                                 => \E r \in for : r.endpoint = reply'.called[1]]_vars

\* C18 witness: after the node at /a was renamed c, the publisher of / was
\* asked for /a/edit and answered with a redirect with the code 302 to
\* /c/edit, and no view function was called.
C18_RenamedIsFound302 ==
    /\ Publication(reply) /\ reply.path = "/a/edit" /\ reply.exc = NoError
    /\ reply.location = <<[code |-> 302, url |-> "/c/edit"]>>
    /\ reply.called = None /\ ~reply.ran
    /\ \E n \in Live(sess) : sess.node[n].path = "/c"

CalledFunction(r) ==
    (CHOOSE v \in Registry.viewlist : v.name = r.called[1][1]).view_functions[r.called[1][2]]
Has(row, given) ==
    (IF row.type = "test_type" THEN {"view"} ELSE {})
        \cup (IF given = None THEN {} ELSE given[1])

\* C20: a view function that publish calls runs if and only if, for each
\* requires_permission(p, *others) on it, the permissions the node grants
\* the user together with those given to publish have p or one of others;
\* where it does not run publish raises Forbidden and returns nothing; a
\* view function without requires_permission always runs.
C20_RunsOnlyWithPermission ==
    [][(Publication(reply') /\ reply'.called # None)
       => \A t \in {traverse(sess, reply'.pub, reply'.path, TRUE)} :
          \A f \in {CalledFunction(reply')} :
          \A has \in {Has(sess.node[t.node], reply'.permissions)} :
              /\ reply'.ran <=>
                    \A i \in 1..Len(f.requires) :
                        \/ f.requires[i].permission \in has
                        \/ f.requires[i].other \cap has # {}
              /\ reply'.ran => reply'.exc = NoError /\ reply'.response # None
              /\ ~reply'.ran => reply'.exc = Forbidden /\ reply'.response = None
              /\ f.requires = <<>> => reply'.ran]_vars

\* C20 witness: the view function for /a/edit, which requires edit or else
\* siteadmin, ran for a call for user1 given siteadmin on a node that grants
\* view alone.
C20_OtherPermissionRuns ==
    /\ Publication(reply) /\ reply.called # None /\ reply.ran
    /\ reply.user = <<"user1">>
    /\ reply.permissions = <<{"siteadmin"}>>
    /\ \E i \in 1..Len(CalledFunction(reply).requires) :
          /\ CalledFunction(reply).requires[i].permission = "edit"
          /\ "siteadmin" \in CalledFunction(reply).requires[i].other
    /\ reply.response = <<"edit view">>

\* C21: a rename changes the alias of a key (P, n) only where the renamed
\* node had the parent P and the name n and has left that name, and then the
\* alias references that node; in particular a node that takes the name n
\* under P leaves the alias of (P, n) as it is.
C21_RepointedOnlyByLeaver ==
    [][call'.op = "name" =>
          \A a \in sess.alias \cup sess'.alias :
              Keyed(sess'.alias, a.parent, a.name) # Keyed(sess.alias, a.parent, a.name)
              => /\ call'.node \in Live(sess)
                 /\ sess.node[call'.node].parent = a.parent
                 /\ sess.node[call'.node].name = a.name
                 /\ sess'.node[call'.node].name # a.name
                 /\ Keyed(sess'.alias, a.parent, a.name) =
                        {[name |-> a.name, node |-> call'.node, parent |-> a.parent]}]_vars

\* C22: when a node named n is moved from its parent P to another parent,
\* or to none, then right afterwards there is exactly one alias with the key
\* (P, n) and it references the node.
C22_ReparentLeavesAlias ==
    [][\A n \in Live(sess) :
          (/\ call'.op = "parent" /\ call'.node = n /\ call'.exc = NoError
           /\ sess.node[n].parent # NULL
           /\ sess'.node[n].parent # sess.node[n].parent)
          => Keyed(sess'.alias, sess.node[n].parent, sess.node[n].name) =
                 {[name |-> sess.node[n].name, node |-> n,
                   parent |-> sess.node[n].parent]}]_vars

\* C23: a creation, a rename, a reparent or a delete leaves an alias for
\* every key (P, n) that had one, where the node P is still there: under a
\* parent that stays the alias keys only grow.
C23_AliasKeysOnlyGrow ==
    [][call'.op \in {"Node", "name", "parent", "delete"} =>
          \A a \in sess.alias :
              a.parent \in Live(sess') => Keyed(sess'.alias, a.parent, a.name) # {}]_vars

\* C23 witness: a delete took the node an alias referenced; the alias is
\* still there under its parent, now without a node, next to the gone-marker
\* for the name the node had.
C23_AliasOutlivesNode ==
    /\ call.op = "delete"
    /\ \E a \in db.alias :
          /\ a.node = call.node /\ a.parent \in Live(sess)
          /\ db.node[call.node].name # a.name
          /\ Keyed(sess.alias, a.parent, a.name) = {[a EXCEPT !.node = NULL]}
          /\ Keyed(sess.alias, a.parent, db.node[call.node].name) # {}

\* The class of a name of the registry
ViewClass(name) == CHOOSE v \in Registry.viewlist : v.name = name
\* The first rule, in the order of registration, of the table of the type
\* of the node that is for the path and has the method
FirstRule(row, path_info, method) ==
    LET Is(r) == /\ r.nodetype = (IF row.itype # "" THEN row.itype ELSE row.type)
                 /\ r.rule = path_info /\ method \in r.methods
    IN  Head(SelectSeq(Registry.urlmaps, Is))
Declares(view, rule, method) ==
    \E i \in 1..Len(view.url_map) :
        view.url_map[i].rule = rule /\ method \in view.url_map[i].methods
\* The first layer of a class that declares the method on the rule: a base
\* class before the class itself
RECURSIVE FirstLayer(_, _, _)
FirstLayer(view, rule, method) ==
    IF view.bases # <<>> /\ Declares(view.bases[1], rule, method)
    THEN FirstLayer(view.bases[1], rule, method)
    ELSE view
\* The function the layer declared for the method on the rule
Declared(layer, rule, method) ==
    LET Is(r) == r.rule = rule /\ method \in r.methods
    IN  layer.attrs[Head(SelectSeq(layer.url_map, Is)).endpoint]
\* The attribute of a name of a class: its own, or else that of its base
RECURSIVE Resolve(_, _)
Resolve(view, name) ==
    IF name \in DOMAIN view.attrs THEN view.attrs[name]
    ELSE Resolve(view.bases[1], name)

RegistryOf(r) == IF r.registered THEN Registry ELSE Viewless
\* The rules of the type of the node whose endpoint has the name: the part
\* after the name of the view
RulesNamed(registry, row, action) ==
    LET Is(r) == /\ r.nodetype = (IF row.itype # "" THEN row.itype ELSE row.type)
                 /\ r.endpoint[2] = action
    IN  SelectSeq(registry.urlmaps, Is)
\* The path of a node with a rule after it
WithRule(path, rule) == IF path = "/" THEN rule ELSE path \o rule

\* C25: url_for(node, action) of a node at or below basepath returns the
\* path of the node with the rule of the first rule of the table of its type
\* (etype) whose endpoint has the name action, as a URL of the publisher
\* (urlpath in place of basepath); where no rule has the name it raises
\* ViewNotFound.
C25_UrlForFirstNamedRule ==
    [][(reply'.op = "url_for" /\ reply'.pub.exc = NoError
        /\ AtOrBelow(reply'.pub.basepath, sess.node[reply'.node].path))
       => \A rules \in {RulesNamed(RegistryOf(reply'), sess.node[reply'.node],
                              reply'.action)} :
              IF rules = <<>>
              THEN reply'.exc = ViewNotFound /\ reply'.url = None
              ELSE /\ reply'.exc = NoError
                   /\ reply'.url =
                          <<UrlOf(reply'.pub,
                                  WithRule(sess.node[reply'.node].path,
                                           Head(rules).rule))>>]_vars

\* A session that loaded the rows B and holds the rows W has made or renamed
\* a node x, and the committed rows C have another node y, one the session
\* left as it loaded it, with the parent and the name of x
Clash(B, W, C) ==
    \E x \in Live(W), y \in Live(C) :
        /\ IF x \in Live(B) THEN W.node[x].name # B.node[x].name /\ y # x
           ELSE TRUE
        /\ IF y \in Live(B) THEN W.node[y] = B.node[y] ELSE TRUE
        /\ W.node[x].parent # NULL
        /\ C.node[y].parent = W.node[x].parent
        /\ C.node[y].name = W.node[x].name

\* C26: of two concurrent transactions that each make or rename a node,
\* a commit that would give a node the parent and the name of another
\* committed node raises IntegrityError, and a commit that raises it leaves
\* the committed rows (names, paths, aliases) as they were and the session
\* with the committed rows; a commit that succeeds writes every name the
\* session set.  No committed state has two children of one parent under one
\* name.
C26_OneOfTwoCommits ==
    /\ ~DuplicateChild(db)
    /\ [][call'.op = "commit" =>
             \A i \in peer.open \ peer'.open :
                 /\ Clash(peer.begun, Work(i), db) => call'.exc = IntegrityError
                 /\ call'.exc = IntegrityError
                        => /\ db' = db
                           /\ (IF i = 1 THEN sess' ELSE peer'.store) = db
                 /\ call'.exc = NoError
                        => \A x \in Live(Work(i)) :
                               (IF x \in Live(peer.begun)
                                THEN Work(i).node[x] # peer.begun.node[x] ELSE TRUE)
                               => db'.node[Key(peer.begun, db, x)].name =
                                      Work(i).node[x].name]_vars

\* C26 witness: both transactions are over; one has committed the rename of
\* a node x to a name no child of its parent had, and the commit of the
\* other, which had a later node under that parent and name, raised
\* IntegrityError and left that node with the name it had.
C26_SecondRenameRefused ==
    /\ peer.open = {} /\ call.op = "commit" /\ call.exc = IntegrityError
    /\ call.node \in Live(peer.begun)
    /\ db.node[call.node] = peer.begun.node[call.node]
    /\ sess = db /\ peer.store = db
    /\ \E x \in Live(peer.begun) :
          /\ x < call.node
          /\ db.node[x].parent = db.node[call.node].parent
          /\ db.node[x].name # peer.begun.node[x].name
          /\ \A y \in Live(peer.begun) :
                peer.begun.node[y].parent = db.node[x].parent
                    => peer.begun.node[y].name # db.node[x].name

\* C27: a traverse that runs while transactions that rename commit returns
\* what traverse returns on the rows of one committed state, that of its
\* query or one committed since: status, node and path are those of the
\* state before or of the state after a rename, never of nodes from before
\* it with an alias or a name from after it.
C27_TraversalIsBeforeOrAfter ==
    [][(reply.op = "search" /\ reply'.op = "traverse")
       => \E S \in {reply.seen} \cup Range(reply.since) :
              \A t \in {traverse(S, reply.pub, reply.path, TRUE)} :
                  /\ reply'.exc = t.exc /\ reply'.status = t.status
                  /\ reply'.node = t.node /\ reply'.result = t.path]_vars

\* The revisions of a table that carry the label, as the objects have it
Carrying(revision, node, workflow_label) ==
    {r \in 1..Len(revision) :
        revision[r].node = node /\ revision[r].label = workflow_label}

\* C28: at most one revision of a node carries a label that is not None.  A
\* revise or a set_workflow_label with a label gives the label to the new or
\* the given revision and to no other, the revision that had it being left
\* with None and every other label as it was; revise(revision) without a
\* label makes a revision with the label None and previous = revision and
\* leaves the label of revision; and a commit writes the labels as the
\* session has them.
C28_LabelHeldByLatest ==
    /\ \A r \in 1..Len(sess.revision) :
          sess.revision[r].label # None
              => Carrying(sess.revision, sess.revision[r].node, sess.revision[r].label)
                     = {r}
    /\ [][/\ (call'.op \in {"revise", "set_workflow_label"} /\ call'.value # None)
              => /\ call'.exc = NoError
                 /\ Carrying(sess'.revision, 2, call'.value) = {call'.node}
                 /\ \A r \in 1..Len(sess.revision) :
                       r # call'.node
                           => sess'.revision[r].label =
                                  (IF sess.revision[r].label = call'.value THEN None
                                   ELSE sess.revision[r].label)
          /\ (call'.op = "revise" /\ call'.value = None /\ call'.parent # NULL)
              => /\ call'.exc = NoError
                 /\ call'.node = Len(sess.revision) + 1
                 /\ sess'.revision[call'.node].label = None
                 /\ sess'.revision[call'.node].previous = call'.parent
                 /\ sess'.revision[call'.parent].label = sess.revision[call'.parent].label
          /\ call'.op = "commit"
              => /\ call'.exc = NoError
                 /\ Len(db'.revision) = Len(sess.revision)
                 /\ \A r \in 1..Len(sess.revision) :
                       db'.revision[r].label = sess.revision[r].label]_vars

\* C29: where traverse of rest under urlpath returns REDIRECT through an
\* alias whose node N is in the tree of the root of the publisher, at or
\* below basepath, the path it returns is the stored path of N with the names
\* of the request after the name of the alias, as a URL of the publisher; and for a request that ends with the
\* name of the alias, traverse of the path returned is a MATCH on N.  This
\* also after N was given another parent.
C29_RedirectFollowsNode ==
    [][(Answered(reply') /\ reply'.status = REDIRECT)
       => \A rest \in Rests :
              reply'.path = Url(reply'.pub.urlpath, rest)
              => \A fragment \in {After(sess, reply'.node,
                                        Target(reply'.pub.basepath, rest))} :
                 \A a \in AliasRows(sess.alias, reply'.node, Head(split1(fragment))) :
                     (/\ a.node \in Live(sess)
                      /\ sess.node[a.node].root = reply'.pub.root_id
                      /\ AtOrBelow(reply'.pub.basepath, sess.node[a.node].path))
                     => /\ reply'.result =
                               <<UrlOf(reply'.pub,
                                       pathjoin(sess.node[a.node].path,
                                                Tail(split1(fragment))))>>
                        /\ Len(split1(fragment)) = 1
                               => \A t \in {traverse(sess, reply'.pub,
                                                     reply'.result[1], TRUE)} :
                                      t.status = MATCH /\ t.node = a.node]_vars


\* The walk of getprop from self, node = node.parent while node is not None:
\* the node without a parent it comes to, NULL where it comes to none.
RECURSIVE Walk(_, _, _)
Walk(node, self, seen) ==
    IF self \in seen \/ self \notin DOMAIN node THEN NULL
    ELSE IF node[self].parent = NULL THEN self
    ELSE Walk(node, node[self].parent, seen \cup {self})

\* C30: after any sequence of create, rename, reparent and delete, following
\* the parent references from any node of the session comes to a node without
\* a parent, and that node is the root of the node: no node is its own
\* ancestor, also after a node was given itself or one of its descendants as
\* its parent.
C30_ParentsAcyclic ==
    \A n \in Live(sess) :
        /\ Walk(sess.node, n, {}) # NULL
        /\ Walk(sess.node, n, {}) = sess.node[n].root

\* C31: the node reference of every alias, committed or flushed, is null or
\* an existing node; a delete makes of every alias that referenced a node
\* that went, the node itself or a descendant, whatever its parent and its
\* name, a gone-marker, and the alias stays where its parent stays.
C31_AliasReferencesLiveOrNull ==
    [][/\ \A a \in db'.alias : a.node = NULL \/ a.node \in Live(db')
       /\ \A a \in sess'.alias : a.node = NULL \/ a.node \in Live(sess')
       /\ call'.op = "delete" =>
              \A a \in sess.alias :
                  (a.node \in Live(sess) \ Live(sess') /\ a.parent \in Live(sess'))
                  => [a EXCEPT !.node = NULL] \in sess'.alias]_vars

\* C31 witness: a delete has taken a node below the node deleted, and the
\* alias that referenced it, under a parent that stays and for another name
\* than that of the node deleted, is a gone-marker.
C31_DescendantAliasGone ==
    /\ call.op = "delete"
    /\ \E a \in sess.alias, b \in db.alias :
          /\ a.parent = b.parent /\ a.name = b.name /\ a.node = NULL
          /\ b.node \in Live(db) \ Live(sess) /\ b.node # call.node
          /\ a.parent \in Live(sess)

\* C32: in every state, also one that a rename or a reparent refused for the
\* length of a path has left, no node, flushed or committed, has a stored
\* path of more than 1000 characters.
C32_PathWithinLimit ==
    /\ \A n \in Live(sess) : Len(sess.node[n].path) <= 1000
    /\ \A n \in Live(db) : Len(db.node[n].path) <= 1000

\* C32 witness: a reparent was refused for the length of a path after it had
\* given new paths to a part of the subtree, one of them longer than 750
\* characters.
C32_RefusedPartWay ==
    /\ call.op = "parent" /\ call.exc = PathTooLong
    /\ \E n \in Live(sess) \cap Live(db) :
          /\ sess.node[n].path # db.node[n].path
          /\ Len(sess.node[n].path) > 750

\* The redirects that start at path come to an end: traverse of path, and of
\* the path each REDIRECT returns, comes to a status that is not REDIRECT
\* without coming to a path twice.
RECURSIVE Ends(_, _, _, _)
Ends(S, pub, path, seen) ==
    IF path \in seen THEN FALSE
    ELSE LET r == traverse(S, pub, path, TRUE)
         IN  IF r.exc # NoError \/ r.status # REDIRECT THEN TRUE
             ELSE Ends(S, pub, r.path[1], seen \cup {path})

\* C33: in every state that renames, reparents and deletes lead to, for every
\* publisher and every path asked for, traversing the path and then, as long
\* as the status is REDIRECT, the path returned, comes to another status
\* after finitely many steps; no REDIRECT returns the path asked for.
C33_RedirectsEnd ==
    Flushable(sess) =>
        \A m \in Mounts, root \in Roots(sess) :
            \A pub \in {NodePublisher(root, m[1], m[2])} :
                pub.exc = NoError =>
                    \A path \in Requests(pub) : Ends(sess, pub, path, {})

\* C34: every alias, flushed or committed, has a parent and the parent is an
\* existing node; a rename of a node without a parent makes and changes no
\* alias and leaves its path "/", and the delete of a node without a parent
\* makes no alias.
C34_AliasHasLiveParent ==
    [][/\ \A a \in sess'.alias : a.parent \in Live(sess')
       /\ \A a \in db'.alias : a.parent \in Live(db')
       /\ \A n \in Roots(sess) :
              /\ (call'.op = "name" /\ call'.node = n)
                     => sess'.alias = sess.alias /\ sess'.node[n].path = "/"
              /\ (call'.op = "delete" /\ call'.node = n)
                     => \A a \in sess'.alias :
                            Keyed(sess.alias, a.parent, a.name) # {}]_vars

\* C35: whatever the path asked for, one with doubled slashes too, the node
\* that traverse returns with MATCH, PARTIAL, REDIRECT or GONE has the path
\* basepath or a path beneath basepath.
C35_NodeWithinBasepath ==
    [][(Answered(reply') /\ reply'.status \in {MATCH, PARTIAL, REDIRECT, GONE})
       => /\ reply'.node \in Live(sess)
          /\ AtOrBelow(reply'.pub.basepath, sess.node[reply'.node].path)]_vars

\* C36: a rename or a reparent of a node N leaves every node outside the
\* subtree of N, its siblings, its ancestors and the other subtrees, as it
\* was, name, parent, root and path; of the nodes below N it changes no more
\* than the path and the root, and it makes and removes no node.
C36_OutsideSubtreeUnchanged ==
    [][\A n \in Live(sess) :
          (call'.op \in {"name", "parent"} /\ call'.node = n)
          => /\ Live(sess') = Live(sess)
             /\ \A m \in Live(sess) \ Subtree(sess.node, n) :
                    sess'.node[m] = sess.node[m]
             /\ \A m \in Descendants(sess.node, n) \ {n} :
                    sess'.node[m] = [sess.node[m] EXCEPT
                                        !.path = sess'.node[m].path,
                                        !.root = sess'.node[m].root]]_vars

\* C36 witness: a reparent has given a node and the node below it another
\* root, and a node that is neither below it nor a root is there.
C36_SubtreeMovedBesideOthers ==
    /\ call.op = "parent" /\ call.exc = NoError
    /\ \E d \in Descendants(sess.node, call.node) \cap Live(db) :
          /\ d # call.node
          /\ sess.node[d].root # db.node[d].root
          /\ sess.node[call.node].root # db.node[call.node].root
    /\ \E k \in Parented(sess) \ Subtree(sess.node, call.node) :
          k \in Live(db) /\ sess.node[k] = db.node[k]

\* C37: a node at the path asked for comes before an alias of its slot: where
\* a node N has a parent P and there is an alias of (P, name of N), a
\* redirect or a gone-marker, traverse with redirects of the stored path of
\* N, by a publisher of the tree of N with N at or below its basepath,
\* returns MATCH with N; so a name that a rename or a delete has vacated and
\* that a node has taken since leads to that node, not to REDIRECT or GONE.
\* Checked on the trees of the tests that traverse, not on the tree of
\* test_long_path.
C37_NodeBeforeAlias ==
    (Flushable(sess) /\ UniqueConstraints(sess) /\ names # LongNames) =>
        \A n \in Parented(sess), m \in Mounts :
            \A pub \in {NodePublisher(sess.node[n].root, m[1], m[2])} :
                (/\ pub.exc = NoError
                 /\ AliasRows(sess.alias, sess.node[n].parent, sess.node[n].name) # {}
                 /\ AtOrBelow(pub.basepath, sess.node[n].path))
                => \A t \in {traverse(sess, pub, UrlOf(pub, sess.node[n].path), TRUE)} :
                       t.exc = NoError /\ t.status = MATCH /\ t.node = n

\* C37 witness: a node was deleted, a new node has taken its name under the
\* same parent, the gone-marker of the slot is there, and traverse of the
\* path returns MATCH with the new node.
C37_NewNodeOverGoneMarker ==
    /\ call.op = "Node" /\ call.exc = NoError /\ call.node \in Parented(sess)
    /\ \E a \in AliasRows(sess.alias, sess.node[call.node].parent,
                           sess.node[call.node].name) : a.node = NULL
    /\ \E d \in Live(db) \ Live(sess) :
          db.node[d].path = sess.node[call.node].path
    /\ \A t \in {traverse(sess, NodePublisher(sess.node[call.node].root, "/", None),
                           sess.node[call.node].path, TRUE)} :
           t.status = MATCH /\ t.node = call.node

\* C38: owner.nodes[key] = node, for a key that is a name as it is stored,
\* gives the node the name key and the parent owner, and the node and every
\* node below it a path under the path of owner: that of its parent joined
\* with its name; the node is no longer a child of the parent it had, and
\* where key is not the name the node had, there is an alias of the parent
\* and the name it had that references the node.
C38_SetItemMovesAndRenames ==
    [][(call'.op = "setitem" /\ call'.exc = NoError)
       => \A n \in {call'.node} :
          \A owner \in {call'.parent} :
              /\ sess'.node[n].name = call'.value[1]
              /\ sess'.node[n].parent = owner
              /\ sess'.node[n].path =
                     pathjoin(sess'.node[owner].path, <<call'.value[1]>>)
              /\ \A d \in Descendants(sess.node, n) :
                     /\ sess'.node[d].parent \in Live(sess')
                     /\ sess'.node[d].path =
                            pathjoin(sess'.node[sess'.node[d].parent].path,
                                     <<sess'.node[d].name>>)
                     /\ startswith(sess'.node[d].path, sess'.node[owner].path)
              /\ sess.node[n].parent # owner =>
                     sess'.node[n].parent # sess.node[n].parent
              /\ sess.node[n].name # call'.value[1] =>
                     [name |-> sess.node[n].name, node |-> n,
                      parent |-> sess.node[n].parent] \in sess'.alias]_vars

\* C39: getnode(name) of a node returns the child of the node that has the
\* name, where there is one; where there is none, the node that the alias of
\* (the node, name) references, where there is that alias and it references
\* a node; and the default otherwise.
C39_GetNodeChildThenAlias ==
    [][reply'.op = "getnode"
       => \A child \in {Called(sess, reply'.node, reply'.name)} :
          \A alias \in {{a \in AliasRows(sess.alias, reply'.node, reply'.name) :
                            a.node # NULL}} :
              /\ child # {} => reply'.value \in child
              /\ (child = {} /\ alias # {}) =>
                     reply'.value \in {a.node : a \in alias}
              /\ (child = {} /\ alias = {}) => reply'.value = NULL]_vars

\* C40: node.name = value, for a value without a slash that is the name of
\* the node once the spaces around it are taken off, raises nothing and
\* changes nothing: no alias is made or repointed, and the name and the
\* paths of the node and of the nodes below it stay.
C40_SameNameIsNoOp ==
    [][\A n \in Live(sess) :
          (/\ call'.op = "name" /\ call'.node = n
           /\ call'.value # None
           /\ ~HasSlash(call'.value[1])
           /\ Trimmed(call'.value[1], sess.node[n].name))
          => /\ call'.exc = NoError
             /\ sess'.alias = sess.alias
             /\ sess'.node = sess.node
             /\ db' = db]_vars

\* C40 witness: after a rename that has left an alias, a node named b was
\* assigned the name b with spaces around it.
C40_PaddedNameAssigned ==
    /\ call.op = "name" /\ call.exc = NoError /\ call.value = <<" b ">>
    /\ call.node \in Parented(sess)
    /\ sess.node[call.node].name = "b"
    /\ sess.alias # {}
    /\ call.node \in Live(db) /\ db.node[call.node].name = "b"

============================================================================
